---------------------------- MODULE Spec2Model ----------------------------
(***************************************************************************)
(* Verification model of the BFC 10-K projection report generator.         *)
(*                                                                         *)
(*   - the document orchestrator, ReportGenerator.generate_10k_reports and *)
(*     its per-horizon build tasks (src/src/analysis/src/reports/          *)
(*     report_generator.py), as an interleaving state machine: Spec;       *)
(*   - the CAGR calculator _calculate_cagr and the projection engine       *)
(*     calculate_10k_projections (src/src/analysis/quantitative_model.py)  *)
(*     as operators applied to inputs drawn in Init: SpecEngine, and to    *)
(*     the same mappings call after call: SpecEngineSeq;                   *)
(*   - run_report_generation of the two entry points                       *)
(*     (src/src/analysis/main.py, src/Main.py) around one call of the      *)
(*     orchestrator: SpecRun;                                              *)
(*   - the orchestrator under fair scheduling of its threads: SpecFair;    *)
(*   - DecisionFramework.analyze_interdependencies and                     *)
(*     simulate_branching_paths (src/decision_framework.py) as operators   *)
(*     applied to arguments drawn in Init: SpecDecision.                   *)
(*                                                                         *)
(* Python values are tagged records (PyInt, PyFloat, PyNone, PyStr).  A    *)
(* float is held as an exact reduced fraction n/d; the one operation that  *)
(* is not rational, the root taken by **, is rounded down to a grid of     *)
(* 1/CagrRes percent.                                                      *)
(***************************************************************************)
EXTENDS Integers, Sequences, FiniteSets, TLC

VARIABLES
    \* ---- orchestrator (one ReportGenerator instance) ----
    calls,            \* number of generate_10k_reports calls started so far
    shutdown,         \* self._executor has been shut down
    projection_data,  \* the bundle passed to the call in progress
    pcCaller,         \* position of the caller inside generate_10k_reports
    futures,          \* future_to_timeframe, in submission order
    report_paths,     \* report_paths, in insertion order: <<timeframe, string>>
    ret,              \* the mapping returned (successful_reports)
    failed_reports,   \* failed_reports, logged at line 197
    callerExc,        \* exception class that left generate_10k_reports, or ""
    pcTask,           \* position of each build task
    taskOut,          \* what each future holds: <<>> or the returned path
    taskExc,          \* exception class each future holds, or ""
    lock,             \* holder of self._lock, or "free"
    header,           \* self._current_timeframe_header (whose title it holds)
    files,            \* timeframes with a file at their output path
    docHeader,        \* header text drawn into each built document
    \* ---- CAGR calculator ----
    cagrArgs, cagrOut,
    \* ---- projection engine ----
    engIn, engOut,
    \* ---- one run of an entry point (run_report_generation) ----
    entry,            \* the entry point that runs, or "" when none does
    pcRun,            \* position inside run_report_generation
    runExc,           \* class of the exception raised inside the try, or ""
    exitCode,         \* exit status of the process
    summary,          \* the lines of the run summary that were logged
    \* ---- decision framework (one DecisionFramework method call) ----
    dfIn,             \* the arguments the caller holds
    dfOut             \* the calls made: what was passed and what came back

orchVars == <<calls, shutdown, projection_data, pcCaller, futures, report_paths,
              ret, failed_reports, callerExc, pcTask, taskOut, taskExc, lock,
              header, files, docHeader>>
cagrVars == <<cagrArgs, cagrOut>>
engVars  == <<engIn, engOut>>
runVars  == <<entry, pcRun, runExc, exitCode, summary>>
dfVars   == <<dfIn, dfOut>>
vars     == <<orchVars, cagrVars, engVars, runVars, dfVars>>

-----------------------------------------------------------------------------
(* Bounds of the model *)

\* calls made on one ReportGenerator instance
MaxCalls == 2

-----------------------------------------------------------------------------
(* The three horizons, in the order of the list literal at lines 103 / 174 *)

Timeframes == <<"one_year", "five_year", "ten_year">>

Horizons == {Timeframes[i] : i \in 1..Len(Timeframes)}

\* mutant: every multi-year timeframe counts ten years
YearsOf_FiveIsTen(timeframe) ==
    CASE timeframe = "one_year"  -> 1
      [] timeframe = "five_year" -> 10
      [] timeframe = "ten_year"  -> 10
      [] OTHER                   -> 0

\* {'one_year': 1, 'five_year': 5, 'ten_year': 10}.get(timeframe, 0)
YearsOf(timeframe) ==
    CASE timeframe = "one_year"  -> 1
      [] timeframe = "five_year" -> 5
      [] timeframe = "ten_year"  -> 10
      [] OTHER                   -> 0

-----------------------------------------------------------------------------
(* Strings the orchestrator builds and tests, as sequences of pieces *)

\* Path(args.output_dir).resolve(): absolute, so it starts with "/"
OutputDir == "/outputs_v3"

\* str(self.output_dir / f"BFC_10K_{timeframe}_Projection_v3.pdf")
OutputPath(timeframe) ==
    <<OutputDir, "/", "BFC_10K_", timeframe, "_Projection_v3.pdf">>

\* f"FAILED: {type(e).__name__}"
FailureMarker(excClass) == <<"FAILED:", " ", excClass>>

\* mutant: the prefix tested is not the prefix written
StartsWithFailed_WrongPrefix(v) == Len(v) > 0 /\ v[1] = "FAILED"

\* v.startswith("FAILED:")
StartsWithFailed(v) == Len(v) > 0 /\ v[1] = "FAILED:"

\* {k: v for k, v in report_paths.items() if <keep>(v)}, insertion order kept
SuccessfulReports(paths) ==
    SelectSeq(paths, LAMBDA kv : ~StartsWithFailed(kv[2]))

FailedReports(paths) ==
    SelectSeq(paths, LAMBDA kv : StartsWithFailed(kv[2]))

Keys(mapping) == {mapping[i][1] : i \in 1..Len(mapping)}

Lookup(mapping, k) ==
    LET i == CHOOSE j \in 1..Len(mapping) : mapping[j][1] = k IN mapping[i][2]

-----------------------------------------------------------------------------
(* generate_10k_reports *)

\* the bundles a caller may pass: 'baseline' present or not, and each horizon
\* key absent, present with an empty result, or present with data
Bundles == [baseline : BOOLEAN, tf : [Horizons -> {"absent", "empty", "data"}]]

\* mutant: a horizon whose result is empty is skipped, not submitted
TasksOf_SkipEmpty(bundle) ==
    SelectSeq(Timeframes, LAMBDA t : bundle.tf[t] = "data")

\* tasks = {timeframe: ... for timeframe in [...] if timeframe in projection_data}
TasksOf(bundle) ==
    SelectSeq(Timeframes, LAMBDA t : bundle.tf[t] # "absent")

NoBundle == [baseline |-> FALSE, tf |-> [t \in Horizons |-> "absent"]]

OrchInit ==
    /\ calls = 0
    /\ shutdown = FALSE
    /\ projection_data = NoBundle
    /\ pcCaller = "idle"
    /\ futures = <<>>
    /\ report_paths = <<>>
    /\ ret = <<>>
    /\ failed_reports = <<>>
    /\ callerExc = ""
    /\ pcTask = [t \in Horizons |-> "none"]
    /\ taskOut = [t \in Horizons |-> <<>>]
    /\ taskExc = [t \in Horizons |-> ""]
    /\ lock = "free"
    /\ header = ""
    /\ files \in {{}, Horizons}
    /\ docHeader = [t \in Horizons |-> ""]

\* mutant: the precondition rejects a bundle only when it lacks 'baseline'
\* and has no horizon ("and" for "or" at line 177)
Call_RejectsOnlyBoth(bundle) ==
    /\ pcCaller \in {"idle", "returned", "raised"}
    /\ calls < MaxCalls
    /\ calls' = calls + 1
    /\ projection_data' = bundle
    /\ report_paths' = <<>>
    /\ ret' = <<>>
    /\ failed_reports' = <<>>
    /\ taskOut' = [t \in Horizons |-> <<>>]
    /\ taskExc' = [t \in Horizons |-> ""]
    /\ docHeader' = [t \in Horizons |-> ""]
    /\ IF ~bundle.baseline /\ TasksOf(bundle) = <<>>
         THEN \* lines 177-179: return {}
              /\ pcCaller' = "returned"
              /\ callerExc' = ""
              /\ futures' = <<>>
              /\ pcTask' = [t \in Horizons |-> "none"]
         ELSE IF shutdown
         THEN \* executor.submit on a pool that was shut down: RuntimeError,
              \* raised through the with block to the caller
              /\ pcCaller' = "raised"
              /\ callerExc' = "RuntimeError"
              /\ futures' = <<>>
              /\ pcTask' = [t \in Horizons |-> "none"]
         ELSE \* lines 182-185: one submit per entry of tasks
              /\ pcCaller' = "collecting"
              /\ callerExc' = ""
              /\ futures' = TasksOf(bundle)
              /\ pcTask' = [t \in Horizons |->
                              IF bundle.tf[t] # "absent" THEN "queued" ELSE "none"]
    /\ UNCHANGED <<shutdown, lock, header, files>>

\* lines 171-185: the call up to the end of the submissions.  The per-call
\* locals are fresh; the instance state (shutdown, lock, header, files) stays.
Call(bundle) ==
    /\ pcCaller \in {"idle", "returned", "raised"}
    /\ calls < MaxCalls
    /\ calls' = calls + 1
    /\ projection_data' = bundle
    /\ report_paths' = <<>>
    /\ ret' = <<>>
    /\ failed_reports' = <<>>
    /\ taskOut' = [t \in Horizons |-> <<>>]
    /\ taskExc' = [t \in Horizons |-> ""]
    /\ docHeader' = [t \in Horizons |-> ""]
    /\ IF ~bundle.baseline \/ TasksOf(bundle) = <<>>
         THEN \* lines 177-179: return {}
              /\ pcCaller' = "returned"
              /\ callerExc' = ""
              /\ futures' = <<>>
              /\ pcTask' = [t \in Horizons |-> "none"]
         ELSE IF shutdown
         THEN \* executor.submit on a pool that was shut down: RuntimeError,
              \* raised through the with block to the caller
              /\ pcCaller' = "raised"
              /\ callerExc' = "RuntimeError"
              /\ futures' = <<>>
              /\ pcTask' = [t \in Horizons |-> "none"]
         ELSE \* lines 182-185: one submit per entry of tasks
              /\ pcCaller' = "collecting"
              /\ callerExc' = ""
              /\ futures' = TasksOf(bundle)
              /\ pcTask' = [t \in Horizons |->
                              IF bundle.tf[t] # "absent" THEN "queued" ELSE "none"]
    /\ UNCHANGED <<shutdown, lock, header, files>>

\* mutant: the except clause names ReportRenderingError only, so the
\* ReportGenerationError of an empty horizon leaves the call
Collect_CatchRenderingOnly ==
    /\ pcCaller = "collecting"
    /\ Len(report_paths) < Len(futures)
    /\ LET timeframe == futures[Len(report_paths) + 1] IN
         /\ pcTask[timeframe] = "done"
         /\ IF taskExc[timeframe] = "ReportGenerationError"
              THEN /\ pcCaller' = "raised"
                   /\ callerExc' = taskExc[timeframe]
                   /\ UNCHANGED report_paths
              ELSE /\ report_paths' = Append(report_paths,
                        <<timeframe,
                          IF taskExc[timeframe] = ""
                            THEN taskOut[timeframe]
                            ELSE FailureMarker(taskExc[timeframe])>>)
                   /\ UNCHANGED <<pcCaller, callerExc>>
    /\ UNCHANGED <<calls, shutdown, projection_data, futures, ret,
                   failed_reports, pcTask, taskOut, taskExc, lock, header,
                   files, docHeader>>

\* mutant: the futures are collected as they complete (as_completed), not in
\* submission order
Collect_AsCompleted ==
    /\ pcCaller = "collecting"
    /\ Len(report_paths) < Len(futures)
    /\ \E timeframe \in Keys([i \in 1..Len(futures) |-> <<futures[i]>>])
                          \ Keys(report_paths) :
         /\ pcTask[timeframe] = "done"
         /\ report_paths' = Append(report_paths,
              <<timeframe,
                IF taskExc[timeframe] = ""
                  THEN taskOut[timeframe]
                  ELSE FailureMarker(taskExc[timeframe])>>)
    /\ UNCHANGED <<calls, shutdown, projection_data, pcCaller, futures, ret,
                   failed_reports, callerExc, pcTask, taskOut, taskExc, lock,
                   header, files, docHeader>>

\* lines 186-192: future.result() of the next future, in submission order;
\* blocks until that task is done
Collect ==
    /\ pcCaller = "collecting"
    /\ Len(report_paths) < Len(futures)
    /\ LET timeframe == futures[Len(report_paths) + 1] IN
         /\ pcTask[timeframe] = "done"
         /\ report_paths' = Append(report_paths,
              <<timeframe,
                IF taskExc[timeframe] = ""
                  THEN taskOut[timeframe]
                  ELSE FailureMarker(taskExc[timeframe])>>)
    /\ UNCHANGED <<calls, shutdown, projection_data, pcCaller, futures, ret,
                   failed_reports, callerExc, pcTask, taskOut, taskExc, lock,
                   header, files, docHeader>>

\* end of the with block (executor.shutdown(wait=True)) and lines 194-198
Finish ==
    /\ pcCaller = "collecting"
    /\ Len(report_paths) = Len(futures)
    /\ \A t \in Horizons : pcTask[t] \in {"none", "done"}
    /\ shutdown' = TRUE
    /\ ret' = SuccessfulReports(report_paths)
    /\ failed_reports' = FailedReports(report_paths)
    /\ pcCaller' = "returned"
    /\ UNCHANGED <<calls, projection_data, futures, report_paths, callerExc,
                   pcTask, taskOut, taskExc, lock, header, files, docHeader>>

-----------------------------------------------------------------------------
(* _generate_single_10k_report, one task per submitted horizon *)

\* ThreadPoolExecutor(max_workers=3)
MaxWorkers == 3

Running == {t \in Horizons : pcTask[t] \notin {"none", "queued", "done"}}

\* a worker takes the task; lines 203-212
Start(t) ==
    /\ pcTask[t] = "queued"
    /\ Cardinality(Running) < MaxWorkers
    /\ IF projection_data.tf[t] = "empty"
         THEN \* line 212, outside the try: no cleanup, no wrapping
              /\ pcTask' = [pcTask EXCEPT ![t] = "done"]
              /\ taskExc' = [taskExc EXCEPT ![t] = "ReportGenerationError"]
         ELSE /\ pcTask' = [pcTask EXCEPT ![t] = "template"]
              /\ UNCHANGED taskExc
    /\ UNCHANGED <<calls, shutdown, projection_data, pcCaller, futures,
                   report_paths, ret, failed_reports, callerExc, taskOut, lock,
                   header, files, docHeader>>

\* lines 215-219: the document object and the page template;
\* _create_page_template (157-165) stores the header on the generator
Template(t) ==
    /\ pcTask[t] = "template"
    /\ \/ /\ header' = t
          /\ pcTask' = [pcTask EXCEPT ![t] = "story"]
       \/ \* the step raises, before or after the header was stored
          /\ header' \in {header, t}
          /\ pcTask' = [pcTask EXCEPT ![t] = "except"]
    /\ UNCHANGED <<calls, shutdown, projection_data, pcCaller, futures,
                   report_paths, ret, failed_reports, callerExc, taskOut,
                   taskExc, lock, files, docHeader>>

\* lines 221-223: _build_report_sections
Story(t) ==
    /\ pcTask[t] = "story"
    /\ \/ pcTask' = [pcTask EXCEPT ![t] = "lockwait"]
       \/ pcTask' = [pcTask EXCEPT ![t] = "except"]
    /\ UNCHANGED <<calls, shutdown, projection_data, pcCaller, futures,
                   report_paths, ret, failed_reports, callerExc, taskOut,
                   taskExc, lock, header, files, docHeader>>

\* mutant: the task does not wait for the lock (acquire(blocking=False) with
\* the result ignored)
Acquire_NoWait(t) ==
    /\ pcTask[t] = "lockwait"
    /\ lock' = t
    /\ pcTask' = [pcTask EXCEPT ![t] = "build"]
    /\ UNCHANGED <<calls, shutdown, projection_data, pcCaller, futures,
                   report_paths, ret, failed_reports, callerExc, taskOut,
                   taskExc, header, files, docHeader>>

\* line 226: with self._lock
Acquire(t) ==
    /\ pcTask[t] = "lockwait"
    /\ lock = "free"
    /\ lock' = t
    /\ pcTask' = [pcTask EXCEPT ![t] = "build"]
    /\ UNCHANGED <<calls, shutdown, projection_data, pcCaller, futures,
                   report_paths, ret, failed_reports, callerExc, taskOut,
                   taskExc, header, files, docHeader>>

\* lines 227-230: doc.build(story) draws every page through self._header
\* (141-148), which reads the header stored on the generator, and writes the
\* file; the with block releases the lock on both exits
Build(t) ==
    /\ pcTask[t] = "build"
    /\ lock = t
    /\ lock' = "free"
    /\ \/ /\ docHeader' = [docHeader EXCEPT ![t] = header]
          /\ files' = files \cup {t}
          /\ taskOut' = [taskOut EXCEPT ![t] = OutputPath(t)]
          /\ pcTask' = [pcTask EXCEPT ![t] = "done"]
       \/ \* doc.build raises; a partial file may be left behind
          /\ files' \in {files, files \cup {t}}
          /\ pcTask' = [pcTask EXCEPT ![t] = "except"]
          /\ UNCHANGED <<docHeader, taskOut>>
    /\ UNCHANGED <<calls, shutdown, projection_data, pcCaller, futures,
                   report_paths, ret, failed_reports, callerExc, taskExc,
                   header>>

\* lines 232-239: remove the file at the output path if there is one (the
\* unlink may fail with OSError, which is logged: the file stays), raise
\* ReportRenderingError
Handler(t) ==
    /\ pcTask[t] = "except"
    /\ files' \in {files \ {t}, files}
    /\ taskExc' = [taskExc EXCEPT ![t] = "ReportRenderingError"]
    /\ pcTask' = [pcTask EXCEPT ![t] = "done"]
    /\ UNCHANGED <<calls, shutdown, projection_data, pcCaller, futures,
                   report_paths, ret, failed_reports, callerExc, taskOut, lock,
                   header, docHeader>>

\* the other components are idle while the orchestrator runs
CagrIdle == cagrArgs = <<>> /\ cagrOut = <<>>
EngIdle  == engIn = <<>> /\ engOut = <<>>
RunIdle  ==
    /\ entry = ""
    /\ pcRun = "none"
    /\ runExc = ""
    /\ exitCode = 0
    /\ summary = <<>>
DfIdle   == dfIn = <<>> /\ dfOut = <<>>

Init == OrchInit /\ CagrIdle /\ EngIdle /\ RunIdle /\ DfIdle

Next ==
    \/ (\E bundle \in Bundles : Call(bundle)) /\ UNCHANGED <<cagrVars, engVars, runVars, dfVars>>
    \/ Collect /\ UNCHANGED <<cagrVars, engVars, runVars, dfVars>>
    \/ Finish /\ UNCHANGED <<cagrVars, engVars, runVars, dfVars>>
    \/ (\E t \in Horizons : Start(t)) /\ UNCHANGED <<cagrVars, engVars, runVars, dfVars>>
    \/ (\E t \in Horizons : Template(t)) /\ UNCHANGED <<cagrVars, engVars, runVars, dfVars>>
    \/ (\E t \in Horizons : Story(t)) /\ UNCHANGED <<cagrVars, engVars, runVars, dfVars>>
    \/ (\E t \in Horizons : Acquire(t)) /\ UNCHANGED <<cagrVars, engVars, runVars, dfVars>>
    \/ (\E t \in Horizons : Build(t)) /\ UNCHANGED <<cagrVars, engVars, runVars, dfVars>>
    \/ (\E t \in Horizons : Handler(t)) /\ UNCHANGED <<cagrVars, engVars, runVars, dfVars>>

Spec == Init /\ [][Next]_vars

-----------------------------------------------------------------------------
(* Scheduling.  A worker thread of the pool that can take a step of its     *)
(* task eventually takes it: every render step terminates, a thread waiting *)
(* for a lock that stays free gets it, and the caller blocked in            *)
(* future.result() or in shutdown(wait=True) goes on once it can.  Nothing  *)
(* obliges a caller to call again.                                          *)

TaskSteps(t) ==
    /\ \/ Start(t)
       \/ Template(t)
       \/ Story(t)
       \/ Acquire(t)
       \/ Build(t)
       \/ Handler(t)
    /\ UNCHANGED <<cagrVars, engVars, runVars, dfVars>>

CallerSteps ==
    /\ \/ Collect
       \/ Finish
    /\ UNCHANGED <<cagrVars, engVars, runVars, dfVars>>

SpecFair ==
    /\ Spec
    /\ \A t \in Horizons : WF_vars(TaskSteps(t))
    /\ WF_vars(CallerSteps)

-----------------------------------------------------------------------------

(* Python values *)

\* an int that fits a float, a float n/d (reduced, d > 0), an int too large
\* for a float (such as 10**400), None, a str
PyInt(n)      == [t |-> "int",    n |-> n, d |-> 1, s |-> ""]
PyFloat(n, d) == [t |-> "float",  n |-> n, d |-> d, s |-> ""]
PyBigInt      == [t |-> "bigint", n |-> 0, d |-> 1, s |-> ""]
PyNone        == [t |-> "None",   n |-> 0, d |-> 1, s |-> ""]
PyStr(s)      == [t |-> "str",    n |-> 0, d |-> 1, s |-> s]

\* isinstance(v, (int, float))
IsNumeric(v) == v.t \in {"int", "float", "bigint"}

\* isinstance(v, int)
IsInt(v) == v.t \in {"int", "bigint"}

\* v == 0, v < 0, v <= 0 for a numeric v
IsZero(v)     == v.t # "bigint" /\ v.n = 0
IsNegative(v) == v.t # "bigint" /\ v.n < 0
IsNonPositive(v) == IsZero(v) \/ IsNegative(v)

RECURSIVE Gcd(_, _)
Gcd(a, b) == IF b = 0 THEN a ELSE Gcd(b, a % b)

Abs(x) == IF x < 0 THEN -x ELSE x

\* the float n/d, reduced
Float(n, d) ==
    LET g == Gcd(Abs(n), Abs(d))
        sg == IF d < 0 THEN -1 ELSE 1
    IN PyFloat(sg * (n \div g), sg * (d \div g))

\* float arithmetic on values that fit a float
FAdd(a, b) == Float(a.n * b.d + b.n * a.d, a.d * b.d)
FMul(a, b) == Float(a.n * b.n, a.d * b.d)
FDiv(a, b) == Float(a.n * b.d, a.d * b.n)
FLess(a, b) == a.n * b.d < b.n * a.d
FMax(a, b) == IF FLess(a, b) THEN b ELSE a
FMin(a, b) == IF FLess(b, a) THEN b ELSE a

-----------------------------------------------------------------------------
(* Naturals of any size, for the powers the root is bracketed with:        *)
(* little-endian digit sequences in base BigBase                           *)

BigBase == 10000

RECURSIVE BigOf(_)
BigOf(n) == IF n = 0 THEN <<>> ELSE <<n % BigBase>> \o BigOf(n \div BigBase)

RECURSIVE BigMulCarry(_, _, _)
BigMulCarry(b, k, carry) ==
    IF b = <<>> THEN BigOf(carry)
    ELSE LET v == b[1] * k + carry
         IN <<v % BigBase>> \o BigMulCarry(Tail(b), k, v \div BigBase)

BigMul(b, k) == IF k = 0 THEN <<>> ELSE BigMulCarry(b, k, 0)

\* c * m^y
RECURSIVE BigScaledPow(_, _, _)
BigScaledPow(c, m, y) ==
    IF y = 0 THEN BigOf(c) ELSE BigMul(BigScaledPow(c, m, y - 1), m)

RECURSIVE BigLeqFrom(_, _, _)
BigLeqFrom(a, b, i) ==
    IF i = 0 THEN TRUE
    ELSE IF a[i] # b[i] THEN a[i] < b[i]
    ELSE BigLeqFrom(a, b, i - 1)

BigLeq(a, b) ==
    IF Len(a) # Len(b) THEN Len(a) < Len(b) ELSE BigLeqFrom(a, b, Len(a))

-----------------------------------------------------------------------------
(* _calculate_cagr *)

\* resolution of a computed growth rate: grid steps per percent
CagrRes == 10

\* the grid value of a growth factor of 1, i.e. of 100 percent
CagrOne == 100 * CagrRes

\* largest g in lo..hi with g^y * q =< rhs, given that lo is one
RECURSIVE RootSearch(_, _, _, _, _)
RootSearch(lo, hi, rhs, q, y) ==
    IF lo >= hi THEN lo
    ELSE LET mid == (lo + hi + 1) \div 2 IN
         IF BigLeq(BigScaledPow(q, mid, y), rhs)
           THEN RootSearch(mid, hi, rhs, q, y)
           ELSE RootSearch(lo, mid - 1, rhs, q, y)

\* (p/q) ** (1.0/y) for p >= 0, q > 0, y > 0, in grid steps, rounded down
RootOnGrid(p, q, y) ==
    RootSearch(0, CagrOne * ((p \div q) + 1), BigScaledPow(p, CagrOne, y), q, y)

ReasonInvalidYears  == PyStr("N/A (Invalid Years)")
ReasonInvalidValues == PyStr("N/A (Invalid Values)")
ReasonZeroBase      == PyStr("N/A (Zero Base)")
ReasonNegativeValue == PyStr("N/A (Negative Value)")
ReasonCalcError     == PyStr("N/A (Calculation Error)")

\* mutant: the "- 1" of the formula is dropped
CagrCompute_NoMinusOne(start_val, end_val, num_years) ==
    IF num_years.t = "bigint" THEN ReasonCalcError
    ELSE IF end_val.t = "bigint" /\ start_val.t = "bigint"
      THEN Float(100, 1)
    ELSE IF end_val.t = "bigint" THEN ReasonCalcError
    ELSE IF start_val.t = "bigint"
      THEN IF end_val.t = "float" THEN ReasonCalcError
           ELSE Float(0, 1)
    ELSE LET p == end_val.n * start_val.d
             q == end_val.d * start_val.n
         IN Float(RootOnGrid(p, q, num_years.n), CagrRes)

\* lines 51-61, reached with start_val > 0, end_val >= 0 and an int
\* num_years > 0.  end_val / start_val raises OverflowError when an int too
\* large for a float must be converted (bigint over a float, or anything
\* over a bigint float-divided) or when the int quotient is too large; so
\* does 1.0 / num_years.  bigint / bigint and int / bigint are int true
\* divisions: 1.0 and 0.0.
CagrCompute(start_val, end_val, num_years) ==
    IF num_years.t = "bigint" THEN ReasonCalcError
    ELSE IF end_val.t = "bigint" /\ start_val.t = "bigint"
      THEN Float(0, 1)
    ELSE IF end_val.t = "bigint" THEN ReasonCalcError
    ELSE IF start_val.t = "bigint"
      THEN IF end_val.t = "float" THEN ReasonCalcError
           ELSE Float(-100, 1)
    ELSE LET p == end_val.n * start_val.d
             q == end_val.d * start_val.n
         IN Float(RootOnGrid(p, q, num_years.n) - CagrOne, CagrRes)

\* mutant: the values are checked before the years
Cagr_ValuesFirst(start_val, end_val, num_years) ==
    IF ~IsNumeric(start_val) \/ ~IsNumeric(end_val)
      THEN ReasonInvalidValues
    ELSE IF ~IsInt(num_years) \/ IsNonPositive(num_years)
      THEN ReasonInvalidYears
    ELSE IF IsZero(start_val)
      THEN ReasonZeroBase
    ELSE IF IsNegative(start_val) \/ IsNegative(end_val)
      THEN ReasonNegativeValue
    ELSE CagrCompute(start_val, end_val, num_years)

\* mutant: the negative check comes before the zero-base check
Cagr_NegativeFirst(start_val, end_val, num_years) ==
    IF ~IsInt(num_years) \/ IsNonPositive(num_years)
      THEN ReasonInvalidYears
    ELSE IF ~IsNumeric(start_val) \/ ~IsNumeric(end_val)
      THEN ReasonInvalidValues
    ELSE IF IsNegative(start_val) \/ IsNegative(end_val)
      THEN ReasonNegativeValue
    ELSE IF IsZero(start_val)
      THEN ReasonZeroBase
    ELSE CagrCompute(start_val, end_val, num_years)

\* mutant: "and" for "or" in the negative check; a single negative operand
\* then reaches the computation, whose complex result is a calculation error
Cagr_NegativeBoth(start_val, end_val, num_years) ==
    IF ~IsInt(num_years) \/ IsNonPositive(num_years)
      THEN ReasonInvalidYears
    ELSE IF ~IsNumeric(start_val) \/ ~IsNumeric(end_val)
      THEN ReasonInvalidValues
    ELSE IF IsZero(start_val)
      THEN ReasonZeroBase
    ELSE IF IsNegative(start_val) /\ IsNegative(end_val)
      THEN ReasonNegativeValue
    ELSE IF IsNegative(start_val) \/ IsNegative(end_val)
      THEN ReasonCalcError
    ELSE CagrCompute(start_val, end_val, num_years)

\* lines 39-49: the ordered checks, first match wins
Cagr(start_val, end_val, num_years) ==
    IF ~IsInt(num_years) \/ IsNonPositive(num_years)
      THEN ReasonInvalidYears
    ELSE IF ~IsNumeric(start_val) \/ ~IsNumeric(end_val)
      THEN ReasonInvalidValues
    ELSE IF IsZero(start_val)
      THEN ReasonZeroBase
    ELSE IF IsNegative(start_val) \/ IsNegative(end_val)
      THEN ReasonNegativeValue
    ELSE CagrCompute(start_val, end_val, num_years)

\* largest int and largest year count drawn as arguments
MaxVal == 6
MaxYears == 3

CagrValues ==
    {PyNone, PyStr("n/a"), PyBigInt, Float(0, 1), Float(1, 2), Float(-3, 2),
     Float(5, 2)}
      \cup {PyInt(n) : n \in -2..MaxVal}

CagrYears ==
    {PyNone, PyBigInt, Float(2, 1), Float(5, 2), Float(-1, 2)}
      \cup {PyInt(n) : n \in -1..MaxYears}

NotCalled == <<>>

CagrInit ==
    /\ cagrArgs \in {<<a, b, y>> : a \in CagrValues, b \in CagrValues, y \in CagrYears}
    /\ cagrOut = NotCalled

\* the call _calculate_cagr(start_val, end_val, num_years)
CagrCall ==
    /\ cagrArgs # <<>>
    /\ cagrOut = NotCalled
    /\ cagrOut' = <<Cagr(cagrArgs[1], cagrArgs[2], cagrArgs[3])>>
    /\ UNCHANGED cagrArgs

OrchIdle ==
    /\ calls = 0
    /\ shutdown = FALSE
    /\ projection_data = NoBundle
    /\ pcCaller = "idle"
    /\ futures = <<>>
    /\ report_paths = <<>>
    /\ ret = <<>>
    /\ failed_reports = <<>>
    /\ callerExc = ""
    /\ pcTask = [t \in Horizons |-> "none"]
    /\ taskOut = [t \in Horizons |-> <<>>]
    /\ taskExc = [t \in Horizons |-> ""]
    /\ lock = "free"
    /\ header = ""
    /\ files = {}
    /\ docHeader = [t \in Horizons |-> ""]

-----------------------------------------------------------------------------
(* calculate_10k_projections *)

\* a key the dict does not hold
PyMissing == [t |-> "missing", n |-> 0, d |-> 1, s |-> ""]

\* data.get(key)
Get(data, key) == IF data[key].t = "missing" THEN PyNone ELSE data[key]

\* lines 12-21; float(val) of an int that fits a float is that number
SafeGetNumeric(data, key, default) ==
    LET val == Get(data, key) IN
    IF val = PyNone THEN default
    ELSE IF ~IsNumeric(val) THEN default
    ELSE Float(val.n, val.d)

\* lines 18-19: whether the read logs its warning
SafeGetWarns(data, key) ==
    LET val == Get(data, key) IN val # PyNone /\ ~IsNumeric(val)

Zero == Float(0, 1)
One == Float(1, 1)
Hundred == Float(100, 1)
Two == Float(2, 1)

\* mutant: the floor is applied, the ceiling is not
Clamp01_NoCeiling(x) == FMax(Zero, x)

\* max(0.0, min(1.0, x))
Clamp01(x) == FMax(Zero, FMin(One, x))

\* mutant: the percentage is applied as a fraction
Grow_NotPercent(base, pct) == FMul(base, FAdd(One, pct))

\* base * (1 + pct / 100.0)
Grow(base, pct) == FMul(base, FAdd(One, FDiv(pct, Hundred)))

\* mutant: every timeframe reads the one-year key
RevenueKey_OneYearKey(timeframe) == "revenue_growth_pct"

\* lines 116-122: the key the revenue growth is read from
RevenueKey(timeframe) ==
    IF timeframe = "one_year" THEN "revenue_growth_pct"
                              ELSE "cumulative_revenue_growth_pct"

EmptyDict == [k \in {} |-> PyNone]

\* mutant: net margin improves by the whole EBITDA margin improvement
NetMarginImprovement_Whole(ebitda_margin_improvement_pp) ==
    ebitda_margin_improvement_pp

\* line 151: ebitda_margin_improvement_pp / 2.0
NetMarginImprovement(ebitda_margin_improvement_pp) ==
    FDiv(ebitda_margin_improvement_pp, Two)

\* mutant: EBITDA is grown from the baseline EBITDA by the revenue rate, not
\* derived from projected revenue and the projected margin
Projections_GrowsEbitda(baseline_data, assumptions, timeframe) ==
    LET base_revenue       == SafeGetNumeric(baseline_data, "revenue", Zero)
        base_ebitda        == SafeGetNumeric(baseline_data, "ebitda", Zero)
        base_ebitda_margin == SafeGetNumeric(baseline_data, "ebitda_margin", Zero)
        base_rnd_spend     == SafeGetNumeric(baseline_data, "r_and_d_spend", Zero)
        base_net_income    == SafeGetNumeric(baseline_data, "net_income", Zero)
        base_net_margin    == IF base_revenue # Zero
                                THEN FDiv(base_net_income, base_revenue)
                                ELSE Zero
        years    == PyInt(YearsOf(timeframe))
        proj_rev == Grow(base_revenue,
                         SafeGetNumeric(assumptions, RevenueKey(timeframe), Zero))
        ebitda_margin_improvement_pp ==
            SafeGetNumeric(assumptions, "ebitda_margin_improvement", Zero)
        proj_ebitda_margin ==
            Clamp01(FAdd(base_ebitda_margin,
                         FDiv(ebitda_margin_improvement_pp, Hundred)))
        proj_ebitda == Grow(base_ebitda,
                         SafeGetNumeric(assumptions, RevenueKey(timeframe), Zero))
        proj_rnd == Grow(base_rnd_spend,
                         SafeGetNumeric(assumptions, "r_and_d_increase", Zero))
        net_margin_improvement_pp ==
            NetMarginImprovement(ebitda_margin_improvement_pp)
        proj_net_margin ==
            Clamp01(FAdd(base_net_margin,
                         FDiv(net_margin_improvement_pp, Hundred)))
        proj_net_income == FMul(proj_rev, proj_net_margin)
    IN [projected_revenue       |-> proj_rev,
        revenue_cagr            |-> Cagr(base_revenue, proj_rev, years),
        projected_ebitda        |-> proj_ebitda,
        projected_ebitda_margin |-> proj_ebitda_margin,
        ebitda_cagr             |-> Cagr(base_ebitda, proj_ebitda, years),
        projected_r_and_d_spend |-> proj_rnd,
        rnd_cagr                |-> Cagr(base_rnd_spend, proj_rnd, years),
        projected_net_income    |-> proj_net_income,
        projected_net_margin    |-> proj_net_margin,
        net_income_cagr         |-> Cagr(base_net_income, proj_net_income, years)]

\* lines 110-163: one pass of the loop body for a timeframe that has assumptions
Projections(baseline_data, assumptions, timeframe) ==
    LET base_revenue       == SafeGetNumeric(baseline_data, "revenue", Zero)
        base_ebitda        == SafeGetNumeric(baseline_data, "ebitda", Zero)
        base_ebitda_margin == SafeGetNumeric(baseline_data, "ebitda_margin", Zero)
        base_rnd_spend     == SafeGetNumeric(baseline_data, "r_and_d_spend", Zero)
        base_net_income    == SafeGetNumeric(baseline_data, "net_income", Zero)
        base_net_margin    == IF base_revenue # Zero
                                THEN FDiv(base_net_income, base_revenue)
                                ELSE Zero
        years    == PyInt(YearsOf(timeframe))
        proj_rev == Grow(base_revenue,
                         SafeGetNumeric(assumptions, RevenueKey(timeframe), Zero))
        ebitda_margin_improvement_pp ==
            SafeGetNumeric(assumptions, "ebitda_margin_improvement", Zero)
        proj_ebitda_margin ==
            Clamp01(FAdd(base_ebitda_margin,
                         FDiv(ebitda_margin_improvement_pp, Hundred)))
        proj_ebitda == FMul(proj_rev, proj_ebitda_margin)
        proj_rnd == Grow(base_rnd_spend,
                         SafeGetNumeric(assumptions, "r_and_d_increase", Zero))
        net_margin_improvement_pp ==
            NetMarginImprovement(ebitda_margin_improvement_pp)
        proj_net_margin ==
            Clamp01(FAdd(base_net_margin,
                         FDiv(net_margin_improvement_pp, Hundred)))
        proj_net_income == FMul(proj_rev, proj_net_margin)
    IN [projected_revenue       |-> proj_rev,
        revenue_cagr            |-> Cagr(base_revenue, proj_rev, years),
        projected_ebitda        |-> proj_ebitda,
        projected_ebitda_margin |-> proj_ebitda_margin,
        ebitda_cagr             |-> Cagr(base_ebitda, proj_ebitda, years),
        projected_r_and_d_spend |-> proj_rnd,
        rnd_cagr                |-> Cagr(base_rnd_spend, proj_rnd, years),
        projected_net_income    |-> proj_net_income,
        projected_net_margin    |-> proj_net_margin,
        net_income_cagr         |-> Cagr(base_net_income, proj_net_income, years)]

\* mutant: a missing timeframe ends the loop ("break" for "continue"), so the
\* timeframes after it are not computed
HorizonResult_BreakOnMissing(baseline_data, growth_assumptions, timeframe) ==
    IF \E i \in 1..Len(Timeframes) :
          /\ ~growth_assumptions[Timeframes[i]].present
          /\ \E j \in i..Len(Timeframes) : Timeframes[j] = timeframe
      THEN EmptyDict
      ELSE Projections(baseline_data, growth_assumptions[timeframe].a, timeframe)

\* lines 103-108: a timeframe that is not in growth_assumptions gets {}
HorizonResult(baseline_data, growth_assumptions, timeframe) ==
    IF ~growth_assumptions[timeframe].present
      THEN EmptyDict
      ELSE Projections(baseline_data, growth_assumptions[timeframe].a, timeframe)

\* mutant: the loop runs over the keys of growth_assumptions, not over the
\* three names
Calculate10kProjections_OverAssumptionKeys(baseline_data, growth_assumptions) ==
    [k \in {"baseline"} \cup {t \in DOMAIN growth_assumptions :
                                 growth_assumptions[t].present} |->
        IF k = "baseline" THEN baseline_data
        ELSE Projections(baseline_data, growth_assumptions[k].a, k)]

\* lines 89-166
Calculate10kProjections(baseline_data, growth_assumptions) ==
    [k \in {"baseline"} \cup Horizons |->
        IF k = "baseline" THEN baseline_data
        ELSE HorizonResult(baseline_data, growth_assumptions, k)]

\* the keys read from baseline_data (lines 93-97) and from the assumptions of
\* a timeframe (lines 117 / 121, 129, 140)
BaselineKeysRead ==
    {"revenue", "ebitda", "ebitda_margin", "r_and_d_spend", "net_income"}

AssumptionKeysRead(timeframe) ==
    {RevenueKey(timeframe), "ebitda_margin_improvement", "r_and_d_increase"}

\* the logger.warning calls of one call, as <<mapping, key>>: those of
\* _safe_get_numeric (line 19) and, as <<timeframe, "">>, the one for a
\* timeframe without assumptions (line 106)
Warnings(baseline_data, growth_assumptions) ==
    {<<"baseline", k>> : k \in {x \in BaselineKeysRead :
                                    SafeGetWarns(baseline_data, x)}}
    \cup UNION {IF growth_assumptions[t].present
                  THEN {<<t, k>> : k \in {x \in AssumptionKeysRead(t) :
                                             SafeGetWarns(growth_assumptions[t].a, x)}}
                  ELSE {<<t, "">>} : t \in Horizons}

\* BASELINE_DATA: the figures the engine reads
ConfigBaseline ==
    [revenue |-> PyInt(4000), ebitda |-> PyInt(800),
     ebitda_margin |-> Float(1, 5), net_income |-> PyInt(400),
     r_and_d_spend |-> PyInt(200)]

\* GROWTH_ASSUMPTIONS: the parameters the engine reads
ConfigAssumptions(timeframe) ==
    CASE timeframe = "one_year" ->
           [revenue_growth_pct |-> PyInt(5),
            cumulative_revenue_growth_pct |-> PyMissing,
            ebitda_margin_improvement |-> Float(1, 2),
            r_and_d_increase |-> Float(10, 1)]
      [] timeframe = "five_year" ->
           [revenue_growth_pct |-> PyMissing,
            cumulative_revenue_growth_pct |-> PyInt(20),
            ebitda_margin_improvement |-> Float(2, 1),
            r_and_d_increase |-> Float(50, 1)]
      [] OTHER ->
           [revenue_growth_pct |-> PyMissing,
            cumulative_revenue_growth_pct |-> PyInt(40),
            ebitda_margin_improvement |-> Float(4, 1),
            r_and_d_increase |-> Float(100, 1)]

\* baselines drawn: the configured one, and others with zero revenue, margins
\* outside [0, 1], negative or oversized net income, a missing and a
\* non-numeric figure
Baselines ==
    [revenue : {PyInt(4000), PyInt(0)},
     ebitda : {PyInt(800)},
     ebitda_margin : {Float(1, 5), Float(-1, 10), Float(6, 5)},
     net_income : {PyInt(400), PyInt(-50), PyInt(5000)},
     r_and_d_spend : {PyInt(200)}]
    \cup
    {[ConfigBaseline EXCEPT !.ebitda = PyMissing],
     [ConfigBaseline EXCEPT !.r_and_d_spend = PyStr("n/a")],
     [ConfigBaseline EXCEPT !.revenue = PyNone, !.ebitda_margin = PyMissing]}

\* assumptions drawn for a timeframe: the configured ones, an empty mapping,
\* a strongly negative and a strongly positive margin improvement (the first
\* with both revenue keys, the second with the revenue rate under the key of
\* the other kind of timeframe only and a non-numeric R&D increase)
AssumptionsFor(timeframe) ==
    {ConfigAssumptions(timeframe),
     [revenue_growth_pct |-> PyMissing,
      cumulative_revenue_growth_pct |-> PyMissing,
      ebitda_margin_improvement |-> PyMissing,
      r_and_d_increase |-> PyMissing],
     [revenue_growth_pct |-> PyInt(-10),
      cumulative_revenue_growth_pct |-> PyInt(30),
      ebitda_margin_improvement |-> PyInt(-30),
      r_and_d_increase |-> PyInt(0)],
     [revenue_growth_pct |->
          IF timeframe = "one_year" THEN PyMissing ELSE PyInt(25),
      cumulative_revenue_growth_pct |->
          IF timeframe = "one_year" THEN PyInt(25) ELSE PyMissing,
      ebitda_margin_improvement |-> PyInt(90),
      r_and_d_increase |-> PyStr("ten")]}

NoAssumptions ==
    [revenue_growth_pct |-> PyMissing,
     cumulative_revenue_growth_pct |-> PyMissing,
     ebitda_margin_improvement |-> PyMissing,
     r_and_d_increase |-> PyMissing]

\* growth_assumptions: each timeframe absent, or present with a mapping
GrowthAssumptions ==
    {g \in [Horizons -> [present : BOOLEAN,
                          a : UNION {AssumptionsFor(t) : t \in Horizons}]] :
        \A t \in Horizons :
            IF g[t].present THEN g[t].a \in AssumptionsFor(t)
                            ELSE g[t].a = NoAssumptions}

\* a key of growth_assumptions that is none of the three timeframes
ExtraTimeframe == "twenty_year"

\* growth_assumptions that hold that key as well, each timeframe absent, or
\* present with an empty mapping or with the configured one
GrowthAssumptionsExtraKey ==
    {[k \in Horizons \cup {ExtraTimeframe} |->
         IF k \in Horizons THEN g[k]
         ELSE [present |-> TRUE, a |-> ConfigAssumptions("ten_year")]] :
       g \in {h \in GrowthAssumptions :
                 \A t \in Horizons :
                     h[t].present => h[t].a \in {ConfigAssumptions(t),
                                                 NoAssumptions}}}

EngInit ==
    /\ engIn \in {<<b, g>> : b \in Baselines,
                               g \in GrowthAssumptions \cup GrowthAssumptionsExtraKey}
    /\ engOut = NotCalled

\* mutant: a timeframe that has no assumptions is stored in growth_assumptions
\* (growth_assumptions[timeframe] = {}) instead of in results
InputsAfter_StoresEmpty(baseline_data, growth_assumptions) ==
    <<baseline_data,
      [t \in Horizons |-> [present |-> TRUE, a |-> growth_assumptions[t].a]]>>

\* the two mappings as the call leaves them: lines 89-166 read them
\* (baseline_data.copy(), data.get(key), "in", growth_assumptions[timeframe])
\* and assign only to the locals results and projections
InputsAfter(baseline_data, growth_assumptions) ==
    <<baseline_data, growth_assumptions>>

\* one call: what was passed, what was returned and what was logged
EngInvoke(args) ==
    engOut' = Append(engOut,
                [args |-> args,
                 result |-> Calculate10kProjections(args[1], args[2]),
                 warnings |-> Warnings(args[1], args[2])])

\* the call calculate_10k_projections(baseline_data, growth_assumptions)
EngCall ==
    /\ engIn # <<>>
    /\ engOut = NotCalled
    /\ EngInvoke(engIn)
    /\ engIn' = InputsAfter(engIn[1], engIn[2])

InitEngine ==
    /\ OrchIdle
    /\ RunIdle
    /\ DfIdle
    /\ \/ CagrInit /\ EngIdle
       \/ EngInit /\ CagrIdle

NextEngine ==
    \/ CagrCall /\ UNCHANGED <<orchVars, engVars, runVars, dfVars>>
    \/ EngCall /\ UNCHANGED <<orchVars, cagrVars, runVars, dfVars>>

SpecEngine == InitEngine /\ [][NextEngine]_vars

-----------------------------------------------------------------------------
(* calculate_10k_projections called several times by one caller *)

\* calls made one after the other
MaxEngCalls == 3

\* the mappings the caller holds and passes again and again
SeqInputs ==
    {<<b, g>> : b \in {ConfigBaseline,
                        [ConfigBaseline EXCEPT !.revenue = PyInt(0)],
                        [ConfigBaseline EXCEPT !.r_and_d_spend = PyStr("n/a")]},
                g \in {h \in GrowthAssumptions :
                          \A t \in Horizons :
                              h[t].present => h[t].a = ConfigAssumptions(t)}}

\* other mappings, passed in calls made in between
OtherInputs ==
    {<<[ConfigBaseline EXCEPT !.net_income = PyInt(-50)],
       [t \in Horizons |-> [present |-> TRUE, a |-> NoAssumptions]]>>,
     <<[ConfigBaseline EXCEPT !.ebitda_margin = Float(6, 5)],
       [t \in Horizons |->
           IF t = "one_year" THEN [present |-> FALSE, a |-> NoAssumptions]
           ELSE [present |-> TRUE, a |-> ConfigAssumptions(t)]]>>}

EngSeqInit ==
    /\ engIn \in SeqInputs
    /\ engOut = NotCalled

\* a further call with the mappings the caller holds
EngCallAgain ==
    /\ Len(engOut) < MaxEngCalls
    /\ EngInvoke(engIn)
    /\ engIn' = InputsAfter(engIn[1], engIn[2])

\* a call with other mappings; it has no reference to the ones the caller holds
EngCallOther ==
    /\ Len(engOut) < MaxEngCalls
    /\ \E other \in OtherInputs : EngInvoke(other)
    /\ UNCHANGED engIn

InitEngineSeq == OrchIdle /\ CagrIdle /\ RunIdle /\ DfIdle /\ EngSeqInit

NextEngineSeq ==
    \/ EngCallAgain /\ UNCHANGED <<orchVars, cagrVars, runVars, dfVars>>
    \/ EngCallOther /\ UNCHANGED <<orchVars, cagrVars, runVars, dfVars>>

SpecEngineSeq == InitEngineSeq /\ [][NextEngineSeq]_vars

-----------------------------------------------------------------------------
(* run_report_generation of the two entry points: src/src/analysis/main.py  *)
(* and src/Main.py                                                          *)

EntryPoints == {"analysis/main.py", "Main.py"}

\* classes of the exceptions a step inside the try block may raise
ExcClasses ==
    {"ReportGenerationError", "ReportRenderingError", "ValueError",
     "OSError", "KeyError", "AttributeError"}

\* the except clauses and the sys.exit of each: main.py lines 115-126,
\* Main.py lines 101-116
ExitCodeOf(e, exc) ==
    IF e = "analysis/main.py"
      THEN IF exc \in {"ReportGenerationError", "ReportRenderingError",
                        "ValueError"}
             THEN 1
             ELSE 2
      ELSE IF exc \in {"ReportGenerationError", "ReportRenderingError"}
             THEN 1
           ELSE IF exc = "ValueError"
             THEN 1
             ELSE 1

\* ord(s[0]) of a timeframe name: str comparison is decided by the first
\* character of these names
Ord1(s) ==
    CASE s = "five_year" -> 102
      [] s = "one_year"  -> 111
      [] s = "ten_year"  -> 116
      [] OTHER           -> 0

RECURSIVE InsertItem(_, _)
InsertItem(item, items) ==
    IF items = <<>> THEN <<item>>
    ELSE IF Ord1(item[1]) < Ord1(items[1][1]) THEN <<item>> \o items
    ELSE <<items[1]>> \o InsertItem(item, Tail(items))

\* sorted(generated_paths.items())
RECURSIVE Sorted(_)
Sorted(items) ==
    IF items = <<>> THEN <<>>
    ELSE InsertItem(items[1], Sorted(Tail(items)))

\* timeframe.replace('_', ' ').title()
Title(timeframe) ==
    CASE timeframe = "one_year"  -> "One Year"
      [] timeframe = "five_year" -> "Five Year"
      [] timeframe = "ten_year"  -> "Ten Year"
      [] OTHER                   -> ""

\* Path(path_or_error).name
PathName(path) == SubSeq(path, 3, Len(path))

\* "FAILED:" in path_or_error
ContainsFailed(v) == \E i \in 1..Len(v) : v[i] = "FAILED:"

\* the summary lines logged for generated_paths: main.py lines 93-109 (sorted
\* by timeframe), Main.py lines 83-96 (in the order of the mapping)
SummaryLines(e, generated_paths) ==
    IF generated_paths = <<>> THEN << <<"NONE", "", <<>> >> >>
    ELSE LET items == IF e = "analysis/main.py" THEN Sorted(generated_paths)
                                                ELSE generated_paths
             lines == [i \in 1..Len(items) |->
                         IF ~ContainsFailed(items[i][2])
                           THEN <<"SUCCESS", Title(items[i][1]),
                                  PathName(items[i][2])>>
                           ELSE <<"FAILED", Title(items[i][1]), items[i][2]>>]
         IN IF \E i \in 1..Len(items) : ContainsFailed(items[i][2])
              THEN Append(lines, <<"WARNING", "", <<>> >>)
              ELSE lines

\* the bundles calculate_10k_projections hands over: 'baseline' and the
\* three horizon keys, a horizon without assumptions holding {}
RunBundles == {b \in Bundles : b.baseline /\ \A t \in Horizons : b.tf[t] # "absent"}

RunInit ==
    /\ entry \in EntryPoints
    /\ pcRun = "setup"
    /\ runExc = ""
    /\ exitCode = 0
    /\ summary = <<>>

\* output_dir.mkdir: an OSError becomes ReportGenerationError
\* (main.py lines 58-65, Main.py lines 55-61)
RunSetup ==
    /\ pcRun = "setup"
    /\ \/ pcRun' = "load" /\ UNCHANGED runExc
       \/ pcRun' = "handler" /\ runExc' = "ReportGenerationError"
    /\ UNCHANGED <<entry, exitCode, summary>>

\* a step of the try block that returns or raises: get_baseline_data (with
\* the ValueError of main.py line 72), calculate_10k_projections,
\* ReportGenerator(...)
RunStep(from, to) ==
    /\ pcRun = from
    /\ \/ pcRun' = to /\ UNCHANGED runExc
       \/ \E exc \in ExcClasses : pcRun' = "handler" /\ runExc' = exc
    /\ UNCHANGED <<entry, exitCode, summary>>

\* report_gen.generate_10k_reports(projection_data), on the new instance
RunGenerate ==
    /\ pcRun = "generate"
    /\ pcCaller = "idle"
    /\ \E b \in RunBundles : Call(b)
    /\ pcRun' = "generating"
    /\ UNCHANGED <<entry, runExc, exitCode, summary>>

\* mutant: a mapping that lacks a horizon is raised as ReportGenerationError
\* instead of being summarised
RunSummary_EscalatesPartial ==
    /\ pcRun = "generating"
    /\ pcCaller \in {"returned", "raised"}
    /\ IF pcCaller = "raised"
         THEN /\ pcRun' = "handler"
              /\ runExc' = callerExc
              /\ UNCHANGED summary
         ELSE IF Keys(ret) # Horizons
         THEN /\ pcRun' = "handler"
              /\ runExc' = "ReportGenerationError"
              /\ UNCHANGED summary
         ELSE /\ pcRun' = "finished"
              /\ summary' = SummaryLines(entry, ret)
              /\ UNCHANGED runExc
    /\ UNCHANGED <<entry, exitCode>>

\* the call is back: the summary, then the function returns; an exception
\* that left the call goes to the handlers
RunSummary ==
    /\ pcRun = "generating"
    /\ pcCaller \in {"returned", "raised"}
    /\ IF pcCaller = "raised"
         THEN /\ pcRun' = "handler"
              /\ runExc' = callerExc
              /\ UNCHANGED summary
         ELSE /\ pcRun' = "finished"
              /\ summary' = SummaryLines(entry, ret)
              /\ UNCHANGED runExc
    /\ UNCHANGED <<entry, exitCode>>

\* the except clause that matches, and its sys.exit
RunHandler ==
    /\ pcRun = "handler"
    /\ exitCode' = ExitCodeOf(entry, runExc)
    /\ pcRun' = "exited"
    /\ UNCHANGED <<entry, runExc, summary>>

InitRun == OrchInit /\ CagrIdle /\ EngIdle /\ DfIdle /\ RunInit

NextRun ==
    \/ RunSetup /\ UNCHANGED <<orchVars, cagrVars, engVars, dfVars>>
    \/ RunStep("load", "calc") /\ UNCHANGED <<orchVars, cagrVars, engVars, dfVars>>
    \/ RunStep("calc", "init") /\ UNCHANGED <<orchVars, cagrVars, engVars, dfVars>>
    \/ RunStep("init", "generate") /\ UNCHANGED <<orchVars, cagrVars, engVars, dfVars>>
    \/ RunGenerate /\ UNCHANGED <<cagrVars, engVars, dfVars>>
    \/ RunSummary /\ UNCHANGED <<orchVars, cagrVars, engVars, dfVars>>
    \/ RunHandler /\ UNCHANGED <<orchVars, cagrVars, engVars, dfVars>>
    \/ Collect /\ UNCHANGED <<cagrVars, engVars, runVars, dfVars>>
    \/ Finish /\ UNCHANGED <<cagrVars, engVars, runVars, dfVars>>
    \/ (\E t \in Horizons : Start(t)) /\ UNCHANGED <<cagrVars, engVars, runVars, dfVars>>
    \/ (\E t \in Horizons : Template(t)) /\ UNCHANGED <<cagrVars, engVars, runVars, dfVars>>
    \/ (\E t \in Horizons : Story(t)) /\ UNCHANGED <<cagrVars, engVars, runVars, dfVars>>
    \/ (\E t \in Horizons : Acquire(t)) /\ UNCHANGED <<cagrVars, engVars, runVars, dfVars>>
    \/ (\E t \in Horizons : Build(t)) /\ UNCHANGED <<cagrVars, engVars, runVars, dfVars>>
    \/ (\E t \in Horizons : Handler(t)) /\ UNCHANGED <<cagrVars, engVars, runVars, dfVars>>

SpecRun == InitRun /\ [][NextRun]_vars

-----------------------------------------------------------------------------
(* DecisionFramework (src/decision_framework.py): analyze_interdependencies *)
(* and simulate_branching_paths, applied to arguments drawn in Init         *)

\* the project names drawn, and the order in which a set of them is listed
ProjectNames == {"p1", "p2", "p3"}

NameOrder == <<"p1", "p2", "p3">>

SeqOfNames(S) == SelectSeq(NameOrder, LAMBDA n : n \in S)

\* Project(...): the fields the two methods read.  timeline_months and
\* cost_estimate are whole numbers, potential_value a list of strings
MakeProject(name, potential_value, level_of_effort, timeline_months, cost_estimate, dependencies) ==
    [name |-> name, potential_value |-> potential_value,
     level_of_effort |-> level_of_effort, timeline_months |-> timeline_months,
     cost_estimate |-> cost_estimate, dependencies |-> dependencies]

\* a Dict[str, Project] is the sequence of its values in insertion order,
\* each under the key project.name (add_project): its keys, projects[name]
Names(projects) == {projects[i].name : i \in 1..Len(projects)}

KeysOf(projects) == [i \in 1..Len(projects) |-> projects[i].name]

ProjectAt(projects, name) ==
    projects[CHOOSE i \in 1..Len(projects) : projects[i].name = name]

\* set(x) of a list
SetOf(list) == {list[i] : i \in 1..Len(list)}

\* ---- analyze_interdependencies ----

\* lines 155-158: dependency_graph[name] = set(project.dependencies)
DirectGraph(projects) ==
    [name \in Names(projects) |-> SetOf(ProjectAt(projects, name).dependencies)]

\* lines 163-164: if k in dependency_graph[i]: ...[i].update(...[k])
Update(dependency_graph, k, i) ==
    IF k \in dependency_graph[i]
      THEN [dependency_graph EXCEPT ![i] = @ \cup dependency_graph[k]]
      ELSE dependency_graph

\* line 162: for i in dependency_graph, from the j-th key on, for one k
RECURSIVE ForI(_, _, _, _)
ForI(dependency_graph, keys, k, j) ==
    IF j > Len(keys) THEN dependency_graph
    ELSE ForI(Update(dependency_graph, k, keys[j]), keys, k, j + 1)

\* line 161: for k in dependency_graph, from the a-th key on
RECURSIVE ForK(_, _, _)
ForK(dependency_graph, keys, a) ==
    IF a > Len(keys) THEN dependency_graph
    ELSE ForK(ForI(dependency_graph, keys, keys[a], 1), keys, a + 1)

\* mutant: the loops are nested the other way round (for i ... for k ...)
RECURSIVE ForK_Inner(_, _, _, _)
ForK_Inner(dependency_graph, keys, i, a) ==
    IF a > Len(keys) THEN dependency_graph
    ELSE ForK_Inner(Update(dependency_graph, keys[a], i), keys, i, a + 1)

RECURSIVE ForI_Outer(_, _, _)
ForI_Outer(dependency_graph, keys, j) ==
    IF j > Len(keys) THEN dependency_graph
    ELSE ForI_Outer(ForK_Inner(dependency_graph, keys, keys[j], 1), keys, j + 1)

AnalyzeInterdependencies_RowsFirst(projects) ==
    ForI_Outer(DirectGraph(projects), KeysOf(projects), 1)

\* lines 153-166
AnalyzeInterdependencies(projects) ==
    ForK(DirectGraph(projects), KeysOf(projects), 1)

\* the projects as the call leaves them: set(project.dependencies) is a new
\* set, and the updates go to the sets of dependency_graph
ProjectsAfterAnalyze(projects) == projects

\* ---- simulate_branching_paths ----

\* viability_thresholds['effort_levels'].get(level_of_effort, 0)
EffortLevel(level_of_effort) ==
    CASE level_of_effort = "Low"    -> 1
      [] level_of_effort = "Medium" -> 2
      [] level_of_effort = "High"   -> 3
      [] OTHER                      -> 0

FSub(a, b) == Float(a.n * b.d - b.n * a.d, a.d * b.d)

\* lines 86-95
CalculateRoiScore(project) ==
    LET value_score    == Float(Len(project.potential_value) * 10, 1)
        effort_penalty == Float(EffortLevel(project.level_of_effort) * 5, 1)
        time_penalty   == FMul(Float(project.timeline_months, 1), Float(1, 2))
        cost_penalty   == FDiv(Float(project.cost_estimate, 1), Float(100000, 1))
    IN FSub(FSub(FSub(value_score, effort_penalty), time_penalty), cost_penalty)

\* sorted(items, key=...): items are <<element, key>>, ascending and stable
RECURSIVE InsertByKey(_, _)
InsertByKey(item, items) ==
    IF items = <<>> THEN <<item>>
    ELSE IF FLess(items[1][2], item[2])
      THEN <<items[1]>> \o InsertByKey(item, Tail(items))
      ELSE <<item>> \o items

RECURSIVE SortedByKey(_)
SortedByKey(items) ==
    IF items = <<>> THEN <<>>
    ELSE InsertByKey(items[1], SortedByKey(Tail(items)))

\* an element of a strategy's list: a name (a str), or an item of
\* projects.items(), the tuple (name, Project)
StrElement(name) == [kind |-> "str", name |-> name]
ItemElement(name) == [kind |-> "tuple", name |-> name]

Elements(sorted_items) == [i \in 1..Len(sorted_items) |-> sorted_items[i][1]]

StrategyNames == <<"high_roi_first", "low_cost_first", "quick_wins">>

\* lines 184-193: the list each strategy walks.  sorted(..., reverse=True)
\* keeps equal keys in their order, as the ascending sort of the negated key
StrategyOrder(projects, strategy_name) ==
    CASE strategy_name = "high_roi_first" ->
           \* [p[0] for p in sorted_projects]
           Elements(SortedByKey(
               [i \in 1..Len(projects) |->
                   <<StrElement(projects[i].name),
                     FSub(Float(0, 1), CalculateRoiScore(projects[i]))>>]))
      [] strategy_name = "low_cost_first" ->
           \* sorted([p for p in projects.items()], key=... cost_estimate)
           Elements(SortedByKey(
               [i \in 1..Len(projects) |->
                   <<ItemElement(projects[i].name),
                     Float(projects[i].cost_estimate, 1)>>]))
      [] OTHER ->
           \* sorted([p for p in projects.items()], key=... timeline_months)
           Elements(SortedByKey(
               [i \in 1..Len(projects) |->
                   <<ItemElement(projects[i].name),
                     Float(projects[i].timeline_months, 1)>>]))

\* projects[project_name], line 204: the exception it raises, or "".  A tuple
\* that holds a Project cannot be hashed (Project is a dataclass with eq and
\* without frozen, so its __hash__ is None)
SubscriptRaises(projects, project_name) ==
    IF project_name.kind = "tuple" THEN "TypeError"
    ELSE IF project_name.name \notin Names(projects) THEN "KeyError"
    ELSE ""

\* lines 203-213: the loop over project_order from its i-th element on
RECURSIVE SelectLoop(_, _, _, _, _, _)
SelectLoop(projects, project_order, i, time_horizon, project_roi, acc) ==
    IF i > Len(project_order) THEN acc
    ELSE IF SubscriptRaises(projects, project_order[i]) # ""
      THEN [acc EXCEPT !.exc = SubscriptRaises(projects, project_order[i])]
    ELSE LET project_name == project_order[i].name
             project == ProjectAt(projects, project_name)
         IN IF /\ project.cost_estimate <= acc.capital_remaining
               /\ acc.months_used + project.timeline_months <= time_horizon
              THEN SelectLoop(projects, project_order, i + 1, time_horizon,
                              project_roi,
                              [acc EXCEPT
                                 !.projects_selected = Append(@, project_name),
                                 !.capital_remaining = @ - project.cost_estimate,
                                 !.months_used = @ + project.timeline_months,
                                 !.total_roi = FAdd(@, project_roi[project_name])])
              ELSE SelectLoop(projects, project_order, i + 1, time_horizon,
                              project_roi, acc)

\* lines 198-221: one strategy, from its initial locals to its results entry
RunStrategy(projects, strategy_name, initial_capital, time_horizon) ==
    LET project_roi == [name \in Names(projects) |->
                           CalculateRoiScore(ProjectAt(projects, name))]
        acc == SelectLoop(projects, StrategyOrder(projects, strategy_name), 1,
                          time_horizon, project_roi,
                          [exc |-> "", projects_selected |-> <<>>,
                           capital_remaining |-> initial_capital,
                           months_used |-> 0, total_roi |-> Float(0, 1)])
    IN [exc |-> acc.exc,
        projects |-> acc.projects_selected,
        capital_used |-> initial_capital - acc.capital_remaining,
        capital_remaining |-> acc.capital_remaining,
        months_used |-> acc.months_used,
        total_roi |-> acc.total_roi]

\* lines 168-223: the strategies are simulated in the order of the dict; an
\* exception raised in one of them leaves the call
SimulateBranchingPaths(projects, initial_capital, time_horizon) ==
    LET run(s) == RunStrategy(projects, s, initial_capital, time_horizon)
        raising == {i \in 1..Len(StrategyNames) : run(StrategyNames[i]).exc # ""}
    IN IF raising # {}
         THEN [exc |-> run(StrategyNames[CHOOSE i \in raising :
                                            \A j \in raising : i <= j]).exc,
               value |-> <<>>]
         ELSE [exc |-> "",
               value |-> [s \in SetOf(StrategyNames) |-> run(s)]]

-----------------------------------------------------------------------------

(* The arguments drawn for the two methods, and their calls *)

\* time_horizon: int = 36
DefaultTimeHorizon == 36

\* the insertion orders of a dict of up to three projects (none included)
Orders ==
    {<<>>} \cup
    {o \in UNION {[1..n -> ProjectNames] : n \in 1..Cardinality(ProjectNames)} :
        \A i, j \in DOMAIN o : o[i] = o[j] => i = j}

\* every dependency graph over the projects of an order: each project depends
\* on any set of them, itself included
GraphProjects ==
    UNION {{[i \in 1..Len(o) |->
               MakeProject(o[i], <<"growth">>, "Medium", 6, 100000,
                           SeqOfNames(deps[o[i]]))] :
              deps \in [SetOf(o) -> SUBSET SetOf(o)]} : o \in Orders}

\* three projects without dependencies, in any order, that differ in cost,
\* duration, value and effort
CostedProjects ==
    {[i \in 1..3 |->
        MakeProject(o[i],
                    IF o[i] = "p1" THEN <<"growth", "margin">> ELSE <<"growth">>,
                    IF o[i] = "p3" THEN "High" ELSE "Low",
                    f[o[i]][1], f[o[i]][2], <<>>)] :
       o \in {x \in Orders : Len(x) = 3},
       f \in [ProjectNames -> {6, 12} \X {100000, 300000}]}

DfInputs ==
    {[projects |-> ps, initial_capital |-> 500000,
      time_horizon |-> DefaultTimeHorizon] : ps \in GraphProjects}
    \cup
    [projects : CostedProjects, initial_capital : {300000, 500000},
     time_horizon : {12, DefaultTimeHorizon}]

DfInit ==
    /\ dfIn \in DfInputs
    /\ dfOut = <<>>

\* framework.analyze_interdependencies(projects)
AnalyzeCall ==
    /\ dfOut = <<>>
    /\ dfOut' = <<[op |-> "analyze_interdependencies",
                   args |-> dfIn,
                   exc |-> "",
                   value |-> AnalyzeInterdependencies(dfIn.projects)]>>
    /\ dfIn' = [dfIn EXCEPT !.projects = ProjectsAfterAnalyze(dfIn.projects)]

\* framework.simulate_branching_paths(projects, initial_capital, time_horizon)
SimulateCall ==
    /\ dfOut = <<>>
    /\ LET out == SimulateBranchingPaths(dfIn.projects, dfIn.initial_capital,
                                         dfIn.time_horizon)
       IN dfOut' = <<[op |-> "simulate_branching_paths",
                      args |-> dfIn,
                      exc |-> out.exc,
                      value |-> out.value]>>
    /\ UNCHANGED dfIn

InitDecision == OrchIdle /\ CagrIdle /\ EngIdle /\ RunIdle /\ DfInit

NextDecision ==
    \/ AnalyzeCall /\ UNCHANGED <<orchVars, cagrVars, engVars, runVars>>
    \/ SimulateCall /\ UNCHANGED <<orchVars, cagrVars, engVars, runVars>>

SpecDecision == InitDecision /\ [][NextDecision]_vars

-----------------------------------------------------------------------------

(* Claims about the orchestrator, checked under Spec *)

\* what the tasks themselves did, read off the futures
Succeeded == {t \in Horizons : pcTask[t] = "done" /\ taskExc[t] = ""}
Failed    == {t \in Horizons : pcTask[t] = "done" /\ taskExc[t] # ""}

C2_TaskFailureContained ==
    [][ /\ \A t \in Horizons :
             (taskExc'[t] # "" /\ t \in Keys(report_paths')) =>
                 Lookup(report_paths', t) = FailureMarker(taskExc'[t])
        /\ (pcCaller' = "returned" =>
               \A t \in Horizons : taskExc'[t] # "" =>
                   /\ t \in Keys(failed_reports')
                   /\ Lookup(failed_reports', t) = FailureMarker(taskExc'[t]))
        /\ (callerExc' # "" =>
               /\ futures' = <<>>
               /\ \A t \in Horizons : pcTask'[t] = "none" /\ taskExc'[t] = "")
        /\ \A t \in Horizons :
             (calls' = calls /\ (taskExc'[t] # taskExc[t] \/ pcTask'[t] = "except")
                /\ pcTask[t] # pcTask'[t]) =>
                 /\ lock' # t
                 /\ \A u \in Horizons \ {t} :
                      /\ pcTask'[u] = pcTask[u]
                      /\ taskOut'[u] = taskOut[u]
                      /\ taskExc'[u] = taskExc[u]
      ]_vars

\* both exception classes were raised by tasks of one call, a sibling
\* succeeded, and the call returned normally
C2_Witness ==
    /\ pcCaller = "returned"
    /\ callerExc = ""
    /\ taskExc["one_year"] = "ReportGenerationError"
    /\ taskExc["five_year"] = "ReportRenderingError"
    /\ Lookup(failed_reports, "five_year") = FailureMarker("ReportRenderingError")
    /\ "ten_year" \in Keys(ret)

\* C3: in a call that passed the precondition (the bundle has 'baseline' and
\* the call was not refused at submit), a horizon that is present with an
\* empty projection result is submitted, its task ends with
\* ReportGenerationError without entering the render steps (no document is
\* drawn, no path returned), and on return it is in failed_reports and not
\* in the returned mapping.
C3_EmptyHorizonFails ==
    (pcCaller \in {"collecting", "returned"} /\ projection_data.baseline) =>
        \A t \in Horizons : projection_data.tf[t] = "empty" =>
            /\ \E i \in 1..Len(futures) : futures[i] = t
            /\ pcTask[t] \in {"queued", "done"}
            /\ (pcTask[t] = "done" => taskExc[t] = "ReportGenerationError")
            /\ taskOut[t] = <<>>
            /\ docHeader[t] = ""
            /\ (pcCaller = "returned" =>
                   /\ t \notin Keys(ret)
                   /\ t \in Keys(failed_reports)
                   /\ Lookup(failed_reports, t)
                        = FailureMarker("ReportGenerationError"))

\* ten_year is present and empty, the other two were built, the call returned
C3_Witness ==
    /\ pcCaller = "returned"
    /\ projection_data.baseline
    /\ projection_data.tf["ten_year"] = "empty"
    /\ Keys(ret) = {"one_year", "five_year"}
    /\ Keys(failed_reports) = {"ten_year"}
    /\ docHeader["ten_year"] = ""

\* C3 as stated, for every call with a bundle that has 'baseline': a horizon
\* that is present with an empty projection result is submitted, its build
\* fails without rendering, and on return it is reported as failed and is not
\* in the returned mapping.
C3_AsStated ==
    (pcCaller # "idle" /\ projection_data.baseline) =>
        \A t \in Horizons : projection_data.tf[t] = "empty" =>
            /\ \E i \in 1..Len(futures) : futures[i] = t
            /\ pcTask[t] \in {"queued", "done"}
            /\ (pcTask[t] = "done" => taskExc[t] = "ReportGenerationError")
            /\ docHeader[t] = ""
            /\ (pcCaller = "returned" =>
                   /\ t \notin Keys(ret)
                   /\ t \in Keys(failed_reports))

\* times a timeframe occurs among the submitted futures
Submitted(t) == Cardinality({i \in 1..Len(futures) : futures[i] = t})

\* C18 as stated, for every call with a bundle that has 'baseline' and a
\* horizon: exactly one task is submitted for each horizon key present and
\* none for an absent one, and the call has not returned while a submitted
\* task is pending or running.
C18_AsStated ==
    (/\ pcCaller # "idle"
     /\ projection_data.baseline
     /\ \E t \in Horizons : projection_data.tf[t] # "absent") =>
        /\ \A t \in Horizons :
              Submitted(t) = IF projection_data.tf[t] # "absent" THEN 1 ELSE 0
        /\ pcCaller = "returned" =>
              \A t \in Horizons :
                  pcTask[t] = IF projection_data.tf[t] # "absent"
                                THEN "done" ELSE "none"

\* what holds: the same, for the calls whose submissions were accepted (the
\* pool had not been shut down by an earlier call on the instance)
C18_WhilePoolLive ==
    (/\ pcCaller \in {"collecting", "returned"}
     /\ projection_data.baseline
     /\ \E t \in Horizons : projection_data.tf[t] # "absent") =>
        /\ \A t \in Horizons :
              Submitted(t) = IF projection_data.tf[t] # "absent" THEN 1 ELSE 0
        /\ pcCaller = "returned" =>
              \A t \in Horizons :
                  pcTask[t] = IF projection_data.tf[t] # "absent"
                                THEN "done" ELSE "none"

\* the second call on an instance, with a bundle that has 'baseline' and two
\* horizons: the first submit raised RuntimeError, no task exists
C18_Witness ==
    /\ calls = 2
    /\ shutdown
    /\ pcCaller = "raised"
    /\ callerExc = "RuntimeError"
    /\ projection_data.baseline
    /\ projection_data.tf["one_year"] = "data"
    /\ projection_data.tf["five_year"] = "empty"
    /\ futures = <<>>

\* C17: a call whose bundle lacks 'baseline' or has none of the three horizon
\* keys returns at once with an empty mapping: nothing is raised, no task is
\* submitted or started, and no file is written or removed; this is so also
\* on an instance whose pool an earlier call has shut down.
C17_InvalidBundleReturnsEmpty ==
    [][ (/\ calls' = calls + 1
         /\ \/ ~projection_data'.baseline
            \/ \A t \in Horizons : projection_data'.tf[t] = "absent")
        => /\ pcCaller' = "returned"
           /\ callerExc' = ""
           /\ ret' = <<>>
           /\ futures' = <<>>
           /\ \A t \in Horizons : pcTask'[t] = "none"
           /\ files' = files
      ]_vars

\* a second call, on an instance that has built all three documents, with a
\* bundle that has horizons but no 'baseline': returned, empty, files kept
C17_Witness ==
    /\ calls = 2
    /\ shutdown
    /\ pcCaller = "returned"
    /\ callerExc = ""
    /\ ~projection_data.baseline
    /\ projection_data.tf["one_year"] = "data"
    /\ ret = <<>>
    /\ futures = <<>>
    /\ files = Horizons

\* C23 as stated: under every interleaving of the build tasks, the header
\* drawn into the document of a horizon is the header set for that horizon,
\* never the one stored by the task of another horizon.
C23_AsStated ==
    \A t \in Horizons : docHeader[t] \in {"", t}

\* first call on the instance: the one_year document was built and returned
\* as a success, and the header drawn on its pages is the ten_year header
C23_Witness ==
    /\ calls = 1
    /\ pcTask["one_year"] = "done"
    /\ taskExc["one_year"] = ""
    /\ taskOut["one_year"] = OutputPath("one_year")
    /\ docHeader["one_year"] = "ten_year"

\* the tasks that are inside doc.build
InBuild == {t \in Horizons : pcTask[t] = "build"}

\* C24: at most one task is inside doc.build at any time; the writer lock is
\* held by a task exactly while that task is inside doc.build; and a task in
\* its page-template or story step can take that step whoever holds the lock,
\* so these steps of different horizons are not serialized by it.
C24_LockOnlyAroundBuild ==
    /\ Cardinality(InBuild) <= 1
    /\ \A t \in Horizons : (lock = t) <=> (pcTask[t] = "build")
    /\ \A t \in Horizons : pcTask[t] = "template" => ENABLED Template(t)
    /\ \A t \in Horizons : pcTask[t] = "story" => ENABLED Story(t)

\* one_year is inside doc.build and holds the lock while five_year is in its
\* page-template step and ten_year in its story step
C24_Witness ==
    /\ lock = "one_year"
    /\ pcTask["one_year"] = "build"
    /\ pcTask["five_year"] = "template"
    /\ pcTask["ten_year"] = "story"

\* C25 as stated, under fair scheduling of the tasks and of the caller:
\* every call of generate_10k_reports that was made eventually returns, so
\* none ends in another way.
C25_AsStated ==
    /\ [](pcCaller # "raised")
    /\ (pcCaller # "idle") ~> (pcCaller = "returned")

\* what holds under the same scheduling: a call whose submissions the pool
\* accepted eventually returns, whichever tasks fail and wherever they fail,
\* and a task that has left doc.build, in either way, does not hold the lock
C25_AcceptedCallReturns ==
    /\ (pcCaller = "collecting") ~> (pcCaller = "returned")
    /\ [](\A t \in Horizons : pcTask[t] \in {"except", "done"} => lock # t)

\* the second call on an instance, with a bundle that has all three
\* horizons: it ended with RuntimeError, no task exists, nobody holds the lock
C25_Witness ==
    /\ calls = 2
    /\ pcCaller = "raised"
    /\ callerExc = "RuntimeError"
    /\ \A t \in Horizons : projection_data.tf[t] = "data" /\ pcTask[t] = "none"
    /\ lock = "free"

\* C27 as stated: every call on an instance with a valid bundle ('baseline'
\* and at least one horizon key), whatever calls the instance served before,
\* has its build tasks submitted and ends by returning; none raises to its
\* caller.
C27_AsStated ==
    (/\ pcCaller # "idle"
     /\ projection_data.baseline
     /\ \E t \in Horizons : projection_data.tf[t] # "absent") =>
        /\ pcCaller \in {"collecting", "returned"}
        /\ callerExc = ""
        /\ futures = TasksOf(projection_data)

\* what holds: the first call with a valid bundle shuts the pool down when it
\* returns, and every later call with a valid bundle raises RuntimeError
\* before any task exists
C27_OnlyFirstValidCallServed ==
    [][ (/\ calls' = calls + 1
         /\ projection_data'.baseline
         /\ \E t \in Horizons : projection_data'.tf[t] # "absent")
        => IF shutdown
             THEN /\ pcCaller' = "raised"
                  /\ callerExc' = "RuntimeError"
                  /\ futures' = <<>>
             ELSE /\ pcCaller' = "collecting"
                  /\ futures' = TasksOf(projection_data')
      ]_vars

\* the second call on an instance that built all three documents in its
\* first call, with ten_year alone: RuntimeError, and the files are as the
\* first call left them
C27_Witness ==
    /\ calls = 2
    /\ shutdown
    /\ pcCaller = "raised"
    /\ callerExc = "RuntimeError"
    /\ projection_data.baseline
    /\ projection_data.tf = [t \in Horizons |->
                               IF t = "ten_year" THEN "data" ELSE "absent"]
    /\ files = Horizons

\* C28 as stated: when generate_10k_reports has returned, whatever the output
\* directory held before, a file exists at a horizon's path if and only if
\* the horizon is in the returned mapping.
C28_AsStated ==
    pcCaller = "returned" =>
        \A t \in Horizons : (t \in files) <=> (t \in Keys(ret))

\* what holds: every horizon in the returned mapping has its file, and the
\* file at a horizon's path appears or disappears only in a step of that
\* horizon's own task, inside doc.build or in its except handler
C28_OwnFileOnly ==
    [][ /\ pcCaller' = "returned" => Keys(ret') \subseteq files'
        /\ \A t \in Horizons :
              ((t \in files') # (t \in files)) =>
                  /\ pcTask[t] \in {"build", "except"}
                  /\ pcTask'[t] # pcTask[t]
      ]_vars

\* first call on an instance whose output directory held the documents of an
\* earlier run, with an empty five_year result: the call has returned,
\* five_year is reported as failed and the old five_year document is in place
C28_Witness ==
    /\ calls = 1
    /\ pcCaller = "returned"
    /\ projection_data.tf["five_year"] = "empty"
    /\ "five_year" \notin Keys(ret)
    /\ "five_year" \in Keys(failed_reports)
    /\ "five_year" \in files

-----------------------------------------------------------------------------
(* Claims about the CAGR calculator and the projection engine, checked     *)
(* under SpecEngine                                                        *)

CagrDone == cagrOut # NotCalled
EngDone  == engOut # NotCalled

start_arg == cagrArgs[1]
end_arg   == cagrArgs[2]
years_arg == cagrArgs[3]
cagr_result == cagrOut[1]

baseline_arg == engIn[1]
growth_arg   == engIn[2]
bundle       == engOut[1].result

IsPositive(v) == v.t = "bigint" \/ (IsNumeric(v) /\ v.n > 0)
IsPositiveInt(v) == IsInt(v) /\ IsPositive(v)
IsReason(v) == v.t = "str"

ProjectionKeys ==
    {"projected_revenue", "revenue_cagr", "projected_ebitda",
     "projected_ebitda_margin", "ebitda_cagr", "projected_r_and_d_spend",
     "rnd_cagr", "projected_net_income", "projected_net_margin",
     "net_income_cagr"}

\* growth_assumptions with every omitted timeframe filled in from the config
Filled(growth) ==
    [t \in Horizons |->
        IF growth[t].present THEN growth[t]
        ELSE [present |-> TRUE, a |-> ConfigAssumptions(t)]]

\* C4: whichever horizons growth_assumptions omits, the call returns a bundle
\* in which every omitted horizon has an empty result and every present
\* horizon has a full result of ten entries, the same result it has when no
\* horizon is omitted.
C4_MissingHorizonIsolated ==
    EngDone =>
        \A t \in Horizons :
            IF growth_arg[t].present
              THEN /\ DOMAIN bundle[t] = ProjectionKeys
                   /\ bundle[t]
                        = Calculate10kProjections(baseline_arg, Filled(growth_arg))[t]
              ELSE bundle[t] = EmptyDict

\* five_year is omitted (the middle of the loop), the other two are computed
C4_Witness ==
    /\ EngDone
    /\ baseline_arg = ConfigBaseline
    /\ growth_arg["one_year"].present
    /\ ~growth_arg["five_year"].present
    /\ growth_arg["ten_year"] = [present |-> TRUE, a |-> ConfigAssumptions("ten_year")]
    /\ bundle["five_year"] = EmptyDict
    /\ bundle["ten_year"].projected_revenue = Float(5600, 1)

\* C5: in every computed horizon result projected_ebitda_margin and
\* projected_net_margin lie in [0, 1], for every baseline drawn (margins
\* below 0 and above 1, negative net income, zero revenue) and every margin
\* improvement drawn (positive and negative).
C5_MarginsClamped ==
    EngDone =>
        \A t \in Horizons : growth_arg[t].present =>
            /\ ~FLess(bundle[t].projected_ebitda_margin, Zero)
            /\ ~FLess(One, bundle[t].projected_ebitda_margin)
            /\ ~FLess(bundle[t].projected_net_margin, Zero)
            /\ ~FLess(One, bundle[t].projected_net_margin)

\* both clamps act: a baseline margin of 1.2 raised by 90 points ends at 1,
\* a negative net margin lowered further ends at 0
C5_Witness ==
    /\ EngDone
    /\ baseline_arg.ebitda_margin = Float(6, 5)
    /\ baseline_arg.net_income = PyInt(-50)
    /\ baseline_arg.revenue = PyInt(4000)
    /\ growth_arg["one_year"].present
    /\ growth_arg["one_year"].a.ebitda_margin_improvement = PyInt(90)
    /\ bundle["one_year"].projected_ebitda_margin = One
    /\ growth_arg["five_year"].present
    /\ growth_arg["five_year"].a.ebitda_margin_improvement = PyInt(-30)
    /\ bundle["five_year"].projected_net_margin = Zero

\* C6: for every numeric years <= 0 and every start and end value (numeric or
\* not, zero, negative, positive), _calculate_cagr returns the 'invalid
\* years' reason.
C6_InvalidYearsFirst ==
    (CagrDone /\ IsNumeric(years_arg) /\ IsNonPositive(years_arg)) =>
        cagr_result = ReasonInvalidYears

\* years = 0 with a start that is not numeric and an end that is negative
C6_Witness ==
    /\ CagrDone
    /\ years_arg = PyInt(0)
    /\ start_arg = PyNone
    /\ end_arg = PyInt(-1)
    /\ cagr_result = ReasonInvalidYears

\* C7: for every positive integer years, start == 0 and every numeric end
\* (negative and zero included), _calculate_cagr returns the 'zero base'
\* reason.
C7_ZeroBaseBeforeNegative ==
    (CagrDone /\ IsPositiveInt(years_arg) /\ IsNumeric(start_arg)
       /\ IsZero(start_arg) /\ IsNumeric(end_arg)) =>
        cagr_result = ReasonZeroBase

\* start = 0 with a negative end
C7_Witness ==
    /\ CagrDone
    /\ years_arg = PyInt(1)
    /\ start_arg = PyInt(0)
    /\ end_arg = PyInt(-2)
    /\ cagr_result = ReasonZeroBase

\* C8: for every positive integer years and numeric start # 0 and numeric
\* end, if start < 0 or end < 0 then _calculate_cagr returns the 'negative
\* value' reason; and when the baseline net_income is a negative number, the
\* net_income_cagr of every computed horizon is that reason.
C8_NegativeValue ==
    /\ (CagrDone /\ IsPositiveInt(years_arg) /\ IsNumeric(start_arg)
          /\ IsNumeric(end_arg) /\ ~IsZero(start_arg)
          /\ (IsNegative(start_arg) \/ IsNegative(end_arg))) =>
           cagr_result = ReasonNegativeValue
    /\ (EngDone /\ IsNumeric(baseline_arg.net_income)
          /\ IsNegative(baseline_arg.net_income)) =>
           \A t \in Horizons : growth_arg[t].present =>
               bundle[t].net_income_cagr = ReasonNegativeValue

\* net_income = -50 projected against a positive ending value
C8_Witness ==
    /\ EngDone
    /\ baseline_arg.net_income = PyInt(-50)
    /\ growth_arg["ten_year"].present
    /\ FLess(Zero, bundle["ten_year"].projected_net_income)
    /\ bundle["ten_year"].net_income_cagr = ReasonNegativeValue

\* all three arguments fit a float
AllFinite == \A i \in 1..3 : cagrArgs[i].t \in {"int", "float"}

\* end/start as the fraction RatioP/RatioQ, for finite positive arguments
RatioP == end_arg.n * start_arg.d
RatioQ == end_arg.d * start_arg.n

\* the result, in grid steps, as a growth factor: g/CagrOne =< root < (g+1)/CagrOne
ResultOnGrid == (cagr_result.n * CagrRes) \div cagr_result.d + CagrOne

\* g^y * q =< p * CagrOne^y < (g+1)^y * q
Bracketed(g, p, q, y) ==
    /\ BigLeq(BigScaledPow(q, g, y), BigScaledPow(p, CagrOne, y))
    /\ ~BigLeq(BigScaledPow(q, g + 1, y), BigScaledPow(p, CagrOne, y))

Overflows ==
    \/ years_arg.t = "bigint"
    \/ end_arg.t = "bigint" /\ start_arg.t # "bigint"
    \/ start_arg.t = "bigint" /\ end_arg.t = "float"

NumOrZero(v) == IF v.t \in {"int", "float"} THEN Float(v.n, v.d) ELSE Zero

\* the revenue rate of a timeframe, read under the key of its own kind
OwnRevenueRate(t) ==
    IF t = "one_year" THEN NumOrZero(growth_arg[t].a.revenue_growth_pct)
    ELSE NumOrZero(growth_arg[t].a.cumulative_revenue_growth_pct)

\* C12: in every computed horizon, projected_revenue is baseline revenue *
\* (1 + rate/100), the rate applied once, where the rate is
\* revenue_growth_pct for one_year and cumulative_revenue_growth_pct for
\* five_year and ten_year; whatever stands under the other key plays no part,
\* so a rate supplied under the other key only leaves revenue at the baseline.
C12_RevenueRule ==
    EngDone =>
        \A t \in Horizons : growth_arg[t].present =>
            bundle[t].projected_revenue
              = FMul(NumOrZero(baseline_arg.revenue),
                     FAdd(One, FDiv(OwnRevenueRate(t), Hundred)))

\* one_year has its rate under the cumulative key only: no growth; five_year
\* has both keys (-10 and 30): 30 percent, once; ten_year as configured: 40
\* percent, once
C12_Witness ==
    /\ EngDone
    /\ baseline_arg = ConfigBaseline
    /\ growth_arg["one_year"].present
    /\ growth_arg["one_year"].a.cumulative_revenue_growth_pct = PyInt(25)
    /\ growth_arg["one_year"].a.revenue_growth_pct = PyMissing
    /\ bundle["one_year"].projected_revenue = Float(4000, 1)
    /\ growth_arg["five_year"].present
    /\ growth_arg["five_year"].a.revenue_growth_pct = PyInt(-10)
    /\ bundle["five_year"].projected_revenue = Float(5200, 1)
    /\ growth_arg["ten_year"].present
    /\ growth_arg["ten_year"].a = ConfigAssumptions("ten_year")
    /\ bundle["ten_year"].projected_revenue = Float(5600, 1)

\* baseline net margin: net_income / revenue, 0 when baseline revenue is 0
BaselineNetMargin ==
    IF NumOrZero(baseline_arg.revenue) = Zero THEN Zero
    ELSE FDiv(NumOrZero(baseline_arg.net_income),
              NumOrZero(baseline_arg.revenue))

\* C13: in every computed horizon, projected_net_margin is the baseline net
\* margin plus half of ebitda_margin_improvement, taken as percentage points
\* (divided by 100), clamped to [0, 1].
C13_NetMarginHalf ==
    EngDone =>
        \A t \in Horizons : growth_arg[t].present =>
            bundle[t].projected_net_margin
              = FMax(Zero, FMin(One,
                  FAdd(BaselineNetMargin,
                       FDiv(FDiv(NumOrZero(growth_arg[t].a.ebitda_margin_improvement),
                                 Two),
                            Hundred))))

\* the configured baseline (net margin 0.1): an improvement of 2 points gives
\* 0.11 at five years and one of 4 points gives 0.12 at ten years
C13_Witness ==
    /\ EngDone
    /\ baseline_arg = ConfigBaseline
    /\ growth_arg["five_year"].present
    /\ growth_arg["five_year"].a = ConfigAssumptions("five_year")
    /\ bundle["five_year"].projected_net_margin = Float(11, 100)
    /\ growth_arg["ten_year"].present
    /\ growth_arg["ten_year"].a = ConfigAssumptions("ten_year")
    /\ bundle["ten_year"].projected_net_margin = Float(12, 100)

\* C14: in every computed horizon, projected_ebitda is projected_revenue *
\* projected_ebitda_margin, projected_net_income is projected_revenue *
\* projected_net_margin, and projected_r_and_d_spend is baseline
\* r_and_d_spend * (1 + r_and_d_increase/100), whatever the revenue and
\* margin inputs are.
C14_DerivedFigures ==
    EngDone =>
        \A t \in Horizons : growth_arg[t].present =>
            /\ bundle[t].projected_ebitda
                 = FMul(bundle[t].projected_revenue,
                        bundle[t].projected_ebitda_margin)
            /\ bundle[t].projected_net_income
                 = FMul(bundle[t].projected_revenue,
                        bundle[t].projected_net_margin)
            /\ bundle[t].projected_r_and_d_spend
                 = FMul(NumOrZero(baseline_arg.r_and_d_spend),
                        FAdd(One, FDiv(NumOrZero(growth_arg[t].a.r_and_d_increase),
                                       Hundred)))

\* the configured five-year case: revenue 4800 at margins 0.22 and 0.11 gives
\* EBITDA 1056 (baseline EBITDA grown by the revenue rate would be 960) and
\* net income 528; R&D is 200 * 1.5
C14_Witness ==
    /\ EngDone
    /\ baseline_arg = ConfigBaseline
    /\ growth_arg["five_year"].present
    /\ growth_arg["five_year"].a = ConfigAssumptions("five_year")
    /\ bundle["five_year"].projected_ebitda = Float(1056, 1)
    /\ bundle["five_year"].projected_net_income = Float(528, 1)
    /\ bundle["five_year"].projected_r_and_d_spend = Float(300, 1)

\* the fixed year count of a horizon
FixedYears(t) ==
    IF t = "one_year" THEN PyInt(1)
    ELSE IF t = "five_year" THEN PyInt(5) ELSE PyInt(10)

\* C15: in every computed horizon, each of the four growth rates is what
\* _calculate_cagr returns for the metric's own baseline figure, its own
\* projected figure and 1, 5 or 10 years; ebitda_cagr starts from the
\* baseline 'ebitda' figure.
C15_CagrPerMetric ==
    EngDone =>
        \A t \in Horizons : growth_arg[t].present =>
            /\ bundle[t].revenue_cagr
                 = Cagr(NumOrZero(baseline_arg.revenue),
                        bundle[t].projected_revenue, FixedYears(t))
            /\ bundle[t].ebitda_cagr
                 = Cagr(NumOrZero(baseline_arg.ebitda),
                        bundle[t].projected_ebitda, FixedYears(t))
            /\ bundle[t].net_income_cagr
                 = Cagr(NumOrZero(baseline_arg.net_income),
                        bundle[t].projected_net_income, FixedYears(t))
            /\ bundle[t].rnd_cagr
                 = Cagr(NumOrZero(baseline_arg.r_and_d_spend),
                        bundle[t].projected_r_and_d_spend, FixedYears(t))

\* a baseline whose 'ebitda' (800) is not revenue * margin (4000 * 1.2): at
\* five years EBITDA is 4800 and its rate is that of 800 -> 4800 over 5
\* years, 43.0 percent, where 4800 -> 4800 would give 0; revenue grows 20
\* percent over the five years, 3.7 percent a year
C15_Witness ==
    /\ EngDone
    /\ baseline_arg = [ConfigBaseline EXCEPT !.ebitda_margin = Float(6, 5)]
    /\ growth_arg["five_year"].present
    /\ growth_arg["five_year"].a = ConfigAssumptions("five_year")
    /\ bundle["five_year"].projected_ebitda = Float(4800, 1)
    /\ bundle["five_year"].ebitda_cagr = Float(43, 1)
    /\ bundle["five_year"].revenue_cagr = Float(37, 10)

\* the warnings logged by the call
warned == engOut[1].warnings

\* a figure that is present in its mapping but is not a number
NonNumeric(v) == v # PyMissing /\ v.t \notin {"int", "float"}

\* C16 as stated: for every figure the engine reads from the baseline or from
\* the assumptions of a horizon, a missing key yields 0.0, and a present value
\* that is not a number (a string, None) yields 0.0 and a logged warning.
C16_AsStated ==
    EngDone =>
        /\ \A k \in BaselineKeysRead :
              /\ baseline_arg[k] = PyMissing =>
                    SafeGetNumeric(baseline_arg, k, Zero) = Zero
              /\ NonNumeric(baseline_arg[k]) =>
                    /\ SafeGetNumeric(baseline_arg, k, Zero) = Zero
                    /\ <<"baseline", k>> \in warned
        /\ \A t \in Horizons : growth_arg[t].present =>
              \A k \in AssumptionKeysRead(t) :
                  /\ growth_arg[t].a[k] = PyMissing =>
                        SafeGetNumeric(growth_arg[t].a, k, Zero) = Zero
                  /\ NonNumeric(growth_arg[t].a[k]) =>
                        /\ SafeGetNumeric(growth_arg[t].a, k, Zero) = Zero
                        /\ <<t, k>> \in warned

\* what the code does: the default is used in every such case, a value that
\* is present and neither None nor a number is warned about, and a value of
\* None is replaced without any warning.
C16_NoneIsSilent ==
    EngDone =>
        \A k \in BaselineKeysRead :
            /\ (baseline_arg[k] = PyMissing \/ NonNumeric(baseline_arg[k])) =>
                  SafeGetNumeric(baseline_arg, k, Zero) = Zero
            /\ <<"baseline", k>> \in warned
                  <=> (NonNumeric(baseline_arg[k]) /\ baseline_arg[k] # PyNone)

\* revenue is present and None: the call has run and nothing was logged for it
C16_Witness ==
    /\ EngDone
    /\ baseline_arg.revenue = PyNone
    /\ baseline_arg.ebitda_margin = PyMissing
    /\ <<"baseline", "revenue">> \notin warned
    /\ \E t \in Horizons :
          /\ growth_arg[t].present
          /\ bundle[t].projected_revenue = Zero

\* C26: the bundle has exactly the keys baseline, one_year, five_year and
\* ten_year, whatever other keys growth_assumptions holds; its 'baseline' is
\* the baseline passed; a horizon's result is empty exactly when the horizon
\* is missing from growth_assumptions, and the result of a horizon that is
\* present (with an empty mapping, with a zero baseline) has the ten keys:
\* six projected_* figures and four *_cagr values.
C26_BundleShape ==
    EngDone =>
        /\ DOMAIN bundle = {"baseline", "one_year", "five_year", "ten_year"}
        /\ bundle["baseline"] = baseline_arg
        /\ \A t \in Horizons :
              /\ (bundle[t] = EmptyDict) <=> ~growth_arg[t].present
              /\ growth_arg[t].present =>
                    DOMAIN bundle[t]
                      = {"projected_revenue", "projected_ebitda",
                         "projected_ebitda_margin", "projected_r_and_d_spend",
                         "projected_net_income", "projected_net_margin",
                         "revenue_cagr", "ebitda_cagr", "rnd_cagr",
                         "net_income_cagr"}

\* growth_assumptions holds a fourth key, lacks one_year and maps five_year to
\* an empty mapping, and the baseline revenue is zero: one_year is empty,
\* five_year is computed, with a zero projection and no CAGR
C26_Witness ==
    /\ EngDone
    /\ ExtraTimeframe \in DOMAIN growth_arg
    /\ baseline_arg.revenue = PyInt(0)
    /\ ~growth_arg["one_year"].present
    /\ growth_arg["five_year"] = [present |-> TRUE, a |-> NoAssumptions]
    /\ bundle["one_year"] = EmptyDict
    /\ bundle["five_year"] # EmptyDict
    /\ bundle["five_year"].projected_revenue = Zero
    /\ bundle["five_year"].revenue_cagr = ReasonZeroBase

-----------------------------------------------------------------------------
(* Claims about sequences of engine calls, checked under SpecEngineSeq *)

-----------------------------------------------------------------------------
(* Claims about a run of an entry point, checked under SpecRun *)

\* the keys of a mapping, in its order
KeySeq(mapping) == [i \in 1..Len(mapping) |-> mapping[i][1]]

\* the titles of the summary lines, in the order they were logged
SummaryTitles == [i \in 1..Len(summary) |-> summary[i][2]]

\* the title a horizon has in the summary
TitleOfHorizon ==
    [t \in Horizons |->
        IF t = "one_year" THEN "One Year"
        ELSE IF t = "five_year" THEN "Five Year" ELSE "Ten Year"]

\* C19: whatever order the build tasks complete in, the returned mapping
\* lists the successful horizons in the fixed order one_year, five_year,
\* ten_year, and the run summary lists them in a fixed order too (sorted by
\* name in src/src/analysis/main.py, the order of the mapping in
\* src/Main.py): both orders are determined by the set of successful
\* horizons.
C19_StableOrder ==
    /\ pcCaller = "returned" =>
          KeySeq(ret) = SelectSeq(<<"one_year", "five_year", "ten_year">>,
                                  LAMBDA t : t \in Succeeded)
    /\ (pcRun = "finished" /\ ret # <<>>) =>
          SummaryTitles
            = SelectSeq(IF entry = "analysis/main.py"
                          THEN <<"Five Year", "One Year", "Ten Year">>
                          ELSE <<"One Year", "Five Year", "Ten Year">>,
                        LAMBDA x : \E t \in Succeeded : TitleOfHorizon[t] = x)

\* all three builds succeeded and the one_year task, submitted first, went
\* through its template step last; the mapping is in submission order and
\* the summary of main.py is sorted by name
C19_Witness ==
    /\ entry = "analysis/main.py"
    /\ pcRun = "finished"
    /\ header = "one_year"
    /\ KeySeq(ret) = <<"one_year", "five_year", "ten_year">>
    /\ SummaryTitles = <<"Five Year", "One Year", "Ten Year">>

\* the exception classes the spec calls known error categories
KnownCategories == {"ReportGenerationError", "ReportRenderingError", "ValueError"}

\* C20 as stated: at each entry point, a run that ends in an exception exits
\* with a non-zero code, the same for every known error category, and with a
\* different non-zero code for any other exception.
C20_AsStated ==
    pcRun = "exited" =>
        /\ exitCode # 0
        /\ runExc \in KnownCategories =>
              exitCode = ExitCodeOf(entry, "ReportGenerationError")
        /\ runExc \notin KnownCategories =>
              exitCode # ExitCodeOf(entry, "ReportGenerationError")

\* what holds: src/src/analysis/main.py exits with 1 for the known categories
\* and 2 for any other exception; src/Main.py exits with 1 for every
\* exception
C20_PerEntryPoint ==
    pcRun = "exited" =>
        IF entry = "analysis/main.py"
          THEN exitCode = IF runExc \in KnownCategories THEN 1 ELSE 2
          ELSE exitCode = 1

\* src/Main.py has ended on an exception that is not of a known category,
\* with the exit code of the known categories
C20_Witness ==
    /\ entry = "Main.py"
    /\ pcRun = "exited"
    /\ runExc = "AttributeError"
    /\ exitCode = 1

\* the summary lines of a kind ("SUCCESS", "FAILED") that carry a title
LinesOf(kind, t) ==
    {i \in 1..Len(summary) : summary[i][1] = kind /\ summary[i][2] = Title(t)}

\* C21 as stated: the summary of a run that reached it has one line per
\* attempted horizon, a success line with the artifact name for a horizon
\* whose build succeeded and a failure line with the error category for a
\* horizon whose build failed.
C21_AsStated ==
    pcRun = "finished" =>
        \A t \in Horizons :
            /\ t \in Succeeded =>
                  /\ Cardinality(LinesOf("SUCCESS", t)) = 1
                  /\ \A i \in LinesOf("SUCCESS", t) :
                        summary[i][3] = PathName(OutputPath(t))
            /\ t \in Failed =>
                  /\ Cardinality(LinesOf("FAILED", t)) = 1
                  /\ \A i \in LinesOf("FAILED", t) :
                        summary[i][3] = FailureMarker(taskExc[t])

\* what holds: the summary has a success line for each horizon that
\* succeeded and no line at all for a horizon that failed; when every build
\* failed it is the single line saying that no report was generated
C21_SuccessLinesOnly ==
    pcRun = "finished" =>
        /\ \A t \in Horizons :
              /\ LinesOf("FAILED", t) = {}
              /\ Cardinality(LinesOf("SUCCESS", t))
                   = IF t \in Succeeded THEN 1 ELSE 0
        /\ \A i \in 1..Len(summary) : summary[i][1] \in {"SUCCESS", "NONE"}
        /\ (Succeeded = {}) = (summary = << <<"NONE", "", <<>> >> >>)

\* the five_year build failed in its render steps, the other two succeeded,
\* and the summary that was logged has two lines, both success lines
C21_Witness ==
    /\ pcRun = "finished"
    /\ taskExc["five_year"] = "ReportRenderingError"
    /\ Succeeded = {"one_year", "ten_year"}
    /\ Len(summary) = 2
    /\ \A i \in 1..2 : summary[i][1] = "SUCCESS"

\* C22: a build failure is not escalated.  In a run in which one, two or all
\* three builds failed, no exception reaches the handlers and the exit code
\* stays 0; the only step that leaves the generation step goes to the end of
\* the summary, and the run is then finished with its summary logged.
C22_FailureNotFatal ==
    [][ Failed' # {} =>
          /\ pcRun' \in {"generating", "finished"}
          /\ callerExc' = ""
          /\ runExc' = ""
          /\ exitCode' = 0
          /\ (pcRun = "generating" /\ pcRun' # pcRun) =>
                /\ pcRun' = "finished"
                /\ summary' # <<>>
      ]_vars

\* all three builds failed (one on an empty result, two in the render
\* steps), and the run reached the end of the summary without exiting
C22_Witness ==
    /\ pcRun = "finished"
    /\ exitCode = 0
    /\ taskExc["one_year"] = "ReportGenerationError"
    /\ taskExc["five_year"] = "ReportRenderingError"
    /\ taskExc["ten_year"] = "ReportRenderingError"
    /\ ret = <<>>
    /\ summary = << <<"NONE", "", <<>> >> >>

-----------------------------------------------------------------------------
(* Claims about DecisionFramework, checked under SpecDecision *)

SimDone == dfOut # <<>> /\ dfOut[1].op = "simulate_branching_paths"
AnalyzeDone == dfOut # <<>> /\ dfOut[1].op = "analyze_interdependencies"

\* sums over the projects a strategy selected
RECURSIVE TotalCost(_, _)
TotalCost(projects, selected) ==
    IF selected = <<>> THEN 0
    ELSE ProjectAt(projects, selected[1]).cost_estimate
           + TotalCost(projects, Tail(selected))

RECURSIVE TotalMonths(_, _)
TotalMonths(projects, selected) ==
    IF selected = <<>> THEN 0
    ELSE ProjectAt(projects, selected[1]).timeline_months
           + TotalMonths(projects, Tail(selected))

\* what the claim says of one results entry
EntryConsistent(e, projects, initial_capital, time_horizon) ==
    /\ e.capital_used + e.capital_remaining = initial_capital
    /\ e.capital_remaining >= 0
    /\ e.months_used <= time_horizon
    /\ e.months_used = TotalMonths(projects, e.projects)
    /\ e.capital_used = TotalCost(projects, e.projects)
    /\ \A i, j \in 1..Len(e.projects) : e.projects[i] = e.projects[j] => i = j

\* C29 as stated: for a non-empty project set, simulate_branching_paths
\* returns an entry for each of the three strategies, and every entry is
\* consistent: used and remaining capital add up to the initial capital, the
\* remaining capital is not negative, the months used are within the horizon,
\* months and capital used are the sums over the selected projects, and no
\* project is selected twice.
C29_AsStated ==
    (SimDone /\ dfOut[1].args.projects # <<>>) =>
        /\ dfOut[1].exc = ""
        /\ DOMAIN dfOut[1].value
             = {"high_roi_first", "low_cost_first", "quick_wins"}
        /\ \A s \in DOMAIN dfOut[1].value :
              EntryConsistent(dfOut[1].value[s], dfOut[1].args.projects,
                              dfOut[1].args.initial_capital,
                              dfOut[1].args.time_horizon)

\* what holds: with at least one project the call raises TypeError and
\* returns nothing; with none it returns three empty entries.  The entry of
\* high_roi_first, the one strategy that walks names, is consistent when it
\* is computed on its own
C29_RaisesOnItemTuples ==
    SimDone =>
        /\ dfOut[1].exc = IF dfOut[1].args.projects = <<>> THEN "" ELSE "TypeError"
        /\ dfOut[1].exc = "" =>
              \A s \in DOMAIN dfOut[1].value : dfOut[1].value[s].projects = <<>>
        /\ LET e == RunStrategy(dfIn.projects, "high_roi_first",
                                dfIn.initial_capital, dfIn.time_horizon)
           IN e.exc = "" /\ EntryConsistent(e, dfIn.projects,
                                            dfIn.initial_capital,
                                            dfIn.time_horizon)

\* three projects that all fit the capital and the horizon: the call has
\* raised TypeError and no result exists
C29_Witness ==
    /\ SimDone
    /\ Len(dfIn.projects) = 3
    /\ \A i \in 1..3 : dfIn.projects[i].cost_estimate = 100000
    /\ dfIn.initial_capital = 500000
    /\ dfOut[1].exc = "TypeError"
    /\ dfOut[1].value = <<>>

\* the names reachable from a project through one or more dependency links,
\* by the paths of the graph that the dependencies lists describe
DependencyPaths(projects) ==
    UNION {[1..n -> Names(projects)] : n \in 2..(Len(projects) + 1)}

ReachableFrom(projects, name) ==
    {path[Len(path)] :
       path \in {p \in DependencyPaths(projects) :
                   /\ p[1] = name
                   /\ \A i \in 1..(Len(p) - 1) :
                         p[i + 1] \in SetOf(ProjectAt(projects, p[i]).dependencies)}}

\* C30: for every dependency graph over the projects passed (chains, cycles,
\* projects that depend on themselves), in every insertion order of the
\* dict, analyze_interdependencies returns for each project exactly the set
\* of projects reachable from it through one or more dependency links, and
\* the projects, their dependencies lists included, are as they were.
C30_TransitiveClosure ==
    AnalyzeDone =>
        /\ dfOut[1].exc = ""
        /\ DOMAIN dfOut[1].value = Names(dfOut[1].args.projects)
        /\ \A name \in Names(dfOut[1].args.projects) :
              dfOut[1].value[name] = ReachableFrom(dfOut[1].args.projects, name)
        /\ dfIn.projects = dfOut[1].args.projects

\* the dict holds p1, p2, p3 in that order and the dependencies form the
\* cycle p1 -> p3 -> p2 -> p1: every project reaches all three, itself
\* included, and the lists still hold the one direct dependency
C30_Witness ==
    /\ AnalyzeDone
    /\ KeysOf(dfIn.projects) = <<"p1", "p2", "p3">>
    /\ dfIn.projects[1].dependencies = <<"p3">>
    /\ dfIn.projects[2].dependencies = <<"p1">>
    /\ dfIn.projects[3].dependencies = <<"p2">>
    /\ \A name \in ProjectNames : dfOut[1].value[name] = ProjectNames

=============================================================================
